---- MODULE Spec2Model ----
(***************************************************************************)
(* A model of djmkv's subprocess-driven protocol engine:                   *)
(*   - events.py   : the line decoder get_event and the event classes      *)
(*   - sources.py  : Source.run_command / Source.get_event (device lock,   *)
(*                   event queue, external tool process)                   *)
(*   - drive.py    : Drive.run_ioctl, set_door_lock, locked_door           *)
(* Text is modelled as sequences of one-character strings, so that split,  *)
(* strip, upper and int() are computed the way Python computes them.       *)
(***************************************************************************)
EXTENDS Integers, Sequences, FiniteSets, TLC

VARIABLES
    line,             \* decoder harness: the text line handed to get_event
    decoded,          \* decoder harness: what get_event returned or raised
    lock,             \* Source.lock: the task that holds it, or NoTask
    command_counter,  \* Source.command_counter
    event_queue,      \* Source.event_queue: the queued items, oldest first
    unfinished,       \* asyncio.Queue's count of items put and not yet task_done
    process,          \* Source.process: the external tool and its stdout pipe
    task,             \* per task: the coroutine's position and its locals
    door,             \* the drive's door latch: "locked" or "unlocked"
    stream,           \* history variable: every item put on the event queue, in order
    cancels,          \* number of cancellations delivered so far
    lines,            \* number of lines the tool runs started so far will write
    message_queue,    \* MQTTWrapper.message_queue: the queued messages, oldest first
    putters,          \* asyncio.Queue: the messages whose put() is suspended
    worker,           \* send_loop: the point where the coroutine is suspended
    message,          \* send_loop: topic, payload, kwargs (the message in flight)
    remaining_retries,\* send_loop: remaining_retries
    enqueued,         \* history variable: the messages put on the queue, in order
    taken,            \* history variable: the messages send_loop got, in order
    delivered,        \* history variable: the messages published, in order
    dropped,          \* history variable: the messages given up, in order
    failures,         \* history variable: per message, the MqttErrors while in flight
    put_states,       \* history variable: the worker states in which a put returned
    info_history,     \* converter harness: the history handed to history_to_dict
    info,             \* converter harness: what history_to_dict returned
    header,           \* cdrom.py: the lines of /usr/include/linux/cdrom.h, or NoHeader
    ioctl_values,     \* cdrom.py: the module's dict ioctl_values
    cdrom_globals,    \* cdrom.py: the module's global names CDROMEJECT ... CDS_DISC_OK
    startup           \* cdrom.py: "importing", "imported" or the exception of the import

publisherVars == <<message_queue, putters, worker, message, remaining_retries,
                   enqueued, taken, delivered, dropped, failures, put_states>>

converterVars == <<info_history, info>>
cdromVars == <<header, ioctl_values, cdrom_globals, startup>>

vars == <<line, decoded, lock, command_counter, event_queue, unfinished,
          process, task, door, stream, cancels, lines, publisherVars,
          converterVars, cdromVars>>

decoderVars == <<line, decoded>>
deviceVars == <<lock, command_counter, event_queue, unfinished, process,
                task, door, stream, cancels, lines>>

(***************************************************************************)
(* Bounds of the model.                                                    *)
(***************************************************************************)
NumTasks == 2       \* tasks using one Drive / Source, each making one call
MaxLines == 1       \* lines the external tool writes in one behaviour
MaxBusy == 1        \* consecutive EBUSY answers of one hardware call
MaxCancels == 1     \* task cancellations delivered in one behaviour
MaxSleeps == 2      \* polling sleeps of wait_for_state in one behaviour
MaxBurst == 2       \* lines the tool writes in the run of the read-loop harness
MaxTimeouts == 2    \* consecutive read timeouts of run_command that are told apart
MaxMessages == 4    \* messages the producers enqueue in one behaviour
Retries == 2        \* send_loop's parameter retries

(***************************************************************************)
(* Text helpers (Python str methods on sequences of characters).           *)
(***************************************************************************)
Digits == <<"0", "1", "2", "3", "4", "5", "6", "7", "8", "9">>
Lower == <<"a", "b", "c", "d", "e", "f", "g", "h", "i", "j", "k", "l", "m",
           "n", "o", "p", "q", "r", "s", "t", "u", "v", "w", "x", "y", "z">>
Upper == <<"A", "B", "C", "D", "E", "F", "G", "H", "I", "J", "K", "L", "M",
           "N", "O", "P", "Q", "R", "S", "T", "U", "V", "W", "X", "Y", "Z">>
Whitespace == {" ", "\t", "\n", "\r"}

IsDigit(c) == \E i \in 1..10 : Digits[i] = c
DigitVal(c) == (CHOOSE i \in 1..10 : Digits[i] = c) - 1

\* str.upper() on one character
UpperChar(c) ==
    IF \E i \in 1..26 : Lower[i] = c
    THEN Upper[CHOOSE i \in 1..26 : Lower[i] = c]
    ELSE c

\* str.upper()
StrUpper(s) == [i \in 1..Len(s) |-> UpperChar(s[i])]

\* index of the first occurrence of character c in s, 0 if there is none
IndexOf(s, c) ==
    IF \E i \in 1..Len(s) : s[i] = c
    THEN CHOOSE i \in 1..Len(s) : s[i] = c /\ \A j \in 1..(i - 1) : s[j] # c
    ELSE 0

\* s.lstrip(chars) / s.rstrip(chars) / s.strip(chars) for a set of characters
RECURSIVE LStrip(_, _)
LStrip(s, chars) ==
    IF s # <<>> /\ Head(s) \in chars THEN LStrip(Tail(s), chars) ELSE s

RECURSIVE RStrip(_, _)
RStrip(s, chars) ==
    IF s # <<>> /\ s[Len(s)] \in chars
    THEN RStrip(SubSeq(s, 1, Len(s) - 1), chars)
    ELSE s

Strip(s, chars) == LStrip(RStrip(s, chars), chars)

\* field.strip('"')
Unquote(s) == Strip(s, {"\""})

\* s.split(sep): the list of fields, [""] for the empty string
RECURSIVE SplitAll(_, _)
SplitAll(s, sep) ==
    LET i == IndexOf(s, sep) IN
    IF i = 0 THEN <<s>>
    ELSE <<SubSeq(s, 1, i - 1)>> \o SplitAll(SubSeq(s, i + 1, Len(s)), sep)

\* s.split(sep, maxsplit=1)[0] and s.split(sep, maxsplit=1)[-1]
SplitFirst(s, sep) ==
    LET i == IndexOf(s, sep) IN IF i = 0 THEN s ELSE SubSeq(s, 1, i - 1)
SplitLast(s, sep) ==
    LET i == IndexOf(s, sep) IN IF i = 0 THEN s ELSE SubSeq(s, i + 1, Len(s))

\* sep.join(parts)
RECURSIVE Join(_, _)
Join(parts, sep) ==
    IF parts = <<>> THEN <<>>
    ELSE IF Len(parts) = 1 THEN parts[1]
    ELSE parts[1] \o <<sep>> \o Join(Tail(parts), sep)

\* the value of a non-empty run of decimal digits
RECURSIVE DigitsValue(_)
DigitsValue(s) ==
    IF s = <<>> THEN 0
    ELSE 10 * DigitsValue(SubSeq(s, 1, Len(s) - 1)) + DigitVal(s[Len(s)])

AllDigits(s) == s # <<>> /\ \A i \in 1..Len(s) : IsDigit(s[i])

\* int(s): surrounding whitespace is ignored, one optional sign, then digits.
\* IntOk(s) is FALSE where Python raises ValueError.
IntBody(s) ==
    LET t == Strip(s, Whitespace) IN
    IF t # <<>> /\ Head(t) \in {"+", "-"} THEN Tail(t) ELSE t
IntOk(s) == AllDigits(IntBody(s))
IntValue(s) ==
    LET t == Strip(s, Whitespace) IN
    IF t # <<>> /\ Head(t) = "-" THEN 0 - DigitsValue(IntBody(s))
    ELSE DigitsValue(IntBody(s))

\* float(s) for the decimal forms digits, digits.digits, digits. and .digits
\* (with surrounding whitespace and one optional sign); FloatOk(s) is FALSE
\* where Python raises ValueError.  The value is FloatNum(s) / FloatDen(s).
FloatBody(s) == IntBody(s)
FloatWhole(s) ==
    LET b == FloatBody(s) i == IndexOf(b, ".") IN
    IF i = 0 THEN b ELSE SubSeq(b, 1, i - 1)
FloatFrac(s) ==
    LET b == FloatBody(s) i == IndexOf(b, ".") IN
    IF i = 0 THEN <<>> ELSE SubSeq(b, i + 1, Len(b))
FloatOk(s) ==
    /\ \A i \in 1..Len(FloatWhole(s)) : IsDigit(FloatWhole(s)[i])
    /\ \A i \in 1..Len(FloatFrac(s)) : IsDigit(FloatFrac(s)[i])
    /\ Len(FloatWhole(s)) + Len(FloatFrac(s)) > 0
RECURSIVE Pow10(_)
Pow10(k) == IF k = 0 THEN 1 ELSE 10 * Pow10(k - 1)
FloatDen(s) == Pow10(Len(FloatFrac(s)))
FloatNum(s) ==
    LET t == Strip(s, Whitespace)
        m == DigitsValue(FloatWhole(s)) * FloatDen(s) + DigitsValue(FloatFrac(s))
    IN IF t # <<>> /\ Head(t) = "-" THEN 0 - m ELSE m

(***************************************************************************)
(* events.py: the event classes.  An event is a record whose type field    *)
(* names its class.  A constructor applied to the list of raw fields       *)
(* either builds the event or raises; Raised(exc) stands for the raised    *)
(* exception, NoEvent for Python's None.                                   *)
(***************************************************************************)
Raised(exc) == [type |-> "Raised", exc |-> exc]
NoEvent == [type |-> "None"]
IsRaised(r) == r.type = "Raised"
IsEvent(r) == r.type \notin {"Raised", "None"}

UnknownEvent(p) == [type |-> "Unknown", parameters |-> p]

StartEvent(n) == [type |-> "Start", command_number |-> n]

\* mutant: Stop carries the counter that Start has already advanced
StopEventOfCounter(n) == [type |-> "Stop", command_number |-> n + 1]

StopEvent(n) == [type |-> "Stop", command_number |-> n]

MessageEvent(p) ==
    IF Len(p) < 5 THEN Raised("TypeError")
    ELSE [type |-> "Message", code |-> p[1], flags |-> p[2], count |-> p[3],
          message |-> Unquote(p[4]), format_code |-> Unquote(p[5]),
          parameters |-> [i \in 1..(Len(p) - 5) |-> Unquote(p[i + 5])]]

ProgressCurrentEvent(p) ==
    IF Len(p) # 3 THEN Raised("TypeError")
    ELSE [type |-> "ProgressCurrent", code |-> p[1], operation_id |-> p[2],
          name |-> Unquote(p[3])]

ProgressTotalEvent(p) ==
    IF Len(p) # 3 THEN Raised("TypeError")
    ELSE [type |-> "ProgressTotal", code |-> p[1], operation_id |-> p[2],
          name |-> Unquote(p[3])]

\* the float current / limit, kept as the exact fraction
Fraction(n, d) == [num |-> n, den |-> d]

\* mutant: the division yields a value for every limit
AnyLimitDivides(limit) == TRUE

\* self.current / self.limit raises ZeroDivisionError for limit 0
LimitDivides(limit) == limit # 0

ProgressValueEvent(p) ==
    IF Len(p) # 3 THEN Raised("TypeError")
    ELSE IF ~(IntOk(p[1]) /\ IntOk(p[2]) /\ IntOk(p[3])) THEN Raised("ValueError")
    ELSE IF ~LimitDivides(IntValue(p[3])) THEN Raised("ZeroDivisionError")
    ELSE [type |-> "ProgressValue", current |-> IntValue(p[1]),
          total |-> IntValue(p[2]), limit |-> IntValue(p[3]),
          current_fraction |-> Fraction(IntValue(p[1]), IntValue(p[3])),
          total_fraction |-> Fraction(IntValue(p[2]), IntValue(p[3]))]

DriveScanEvent(p) ==
    IF Len(p) # 7 THEN Raised("TypeError")
    ELSE [type |-> "DriveScan", index |-> p[1], visible |-> p[2],
          enabled |-> p[3], flags |-> p[4], drive_name |-> p[5],
          disc_name |-> p[6], unknown_string |-> p[7]]

TitleCountEvent(p) ==
    IF Len(p) # 1 THEN Raised("TypeError")
    ELSE [type |-> "TitleCount", count |-> p[1]]

\* enum ItemAttribute: the name of id i is ItemAttribute[i + 1]
ItemAttribute ==
    <<"Unknown", "Type", "Name", "LangCode", "LangName", "CodecId",
      "CodecShort", "CodecLong", "ChapterCount", "Duration", "DiskSize",
      "DiskSizeBytes", "StreamTypeExtension", "Bitrate", "AudioChannelsCount",
      "AngleInfo", "SourceFileName", "AudioSampleRate", "AudioSampleSize",
      "VideoSize", "VideoAspectRatio", "VideoFrameRate", "StreamFlags",
      "DateTime", "OriginalTitleId", "SegmentsCount", "SegmentsMap",
      "OutputFileName", "MetadataLanguageCode", "MetadataLanguageName",
      "TreeInfo", "PanelTitle", "VolumeName", "OrderWeight", "OutputFormat",
      "OutputFormatDescription", "SeamlessInfo", "PanelText", "MkvFlags",
      "MkvFlagsText", "AudioChannelLayoutName", "OutputCodecShort",
      "OutputConversionType", "OutputAudioSampleRate", "OutputAudioSampleSize",
      "OutputAudioChannelsCount", "OutputAudioChannelLayoutName",
      "OutputAudioChannelLayout", "OutputAudioMixDescription", "Comment",
      "OffsetSequenceId">>

\* ItemAttribute(item_id) raises ValueError outside the enumeration
IsItemAttribute(i) == i \in 0..(Len(ItemAttribute) - 1)

\* mutant: ChapterCount is missing from the integer case
IntegerAttributesShort ==
    {"OrderWeight", "SegmentsCount", "DiskSizeBytes", "AudioChannelsCount",
     "AudioSampleRate", "AudioSampleSize", "StreamFlags"}

\* the attributes whose value InfoEvent converts with int()
IntegerAttributes ==
    {"OrderWeight", "SegmentsCount", "DiskSizeBytes", "AudioChannelsCount",
     "AudioSampleRate", "AudioSampleSize", "StreamFlags", "ChapterCount"}

IntV(n) == [kind |-> "int", int |-> n]
StrV(s) == [kind |-> "str", str |-> s]
\* datetime.timedelta(hours, minutes, seconds): num / den seconds
TimeDelta(h, m, snum, sden) ==
    [kind |-> "timedelta", num |-> (h * 3600 + m * 60) * sden + snum, den |-> sden]

\* InfoEvent.__init__: the raw value of the event
InfoRawValue(values) == Unquote(Join([i \in 1..Len(values) |-> Unquote(values[i])], ","))

\* InfoEvent.__init__ lines 161-180: the conversion chosen by the attribute.
\* InfoValueOk is FALSE where int(), float() or the unpacking raises ValueError.
InfoValueOk(name, raw) ==
    IF name \in IntegerAttributes THEN IntOk(raw)
    ELSE IF name = "Duration"
    THEN LET hms == SplitAll(raw, ":") IN
         /\ Len(hms) = 3
         /\ IntOk(hms[1]) /\ IntOk(hms[2]) /\ FloatOk(hms[3])
    ELSE TRUE

InfoValue(name, raw) ==
    IF name \in IntegerAttributes THEN IntV(IntValue(raw))
    ELSE IF name = "Duration"
    THEN LET hms == SplitAll(raw, ":") IN
         TimeDelta(IntValue(hms[1]), IntValue(hms[2]),
                   FloatNum(hms[3]), FloatDen(hms[3]))
    ELSE StrV(raw)

\* InfoEvent.__init__(item_id, code, *values): the fields every info event has
InfoEvent(type, item_id, code, values) ==
    IF ~IntOk(item_id) THEN Raised("ValueError")
    ELSE IF ~IsItemAttribute(IntValue(item_id)) THEN Raised("ValueError")
    ELSE IF ~IntOk(code) THEN Raised("ValueError")
    ELSE LET name == ItemAttribute[IntValue(item_id) + 1]
             raw == InfoRawValue(values)
         IN IF ~InfoValueOk(name, raw) THEN Raised("ValueError")
            ELSE [type |-> type, item_id |-> IntValue(item_id), item_name |-> name,
                  code |-> IntValue(code),
                  values |-> [i \in 1..Len(values) |-> Unquote(values[i])],
                  raw_value |-> raw, value |-> InfoValue(name, raw)]

\* p with its first k fields removed
Drop(p, k) == SubSeq(p, k + 1, Len(p))

\* r with the fields of the record extra added
WithFields(r, extra) ==
    [f \in (DOMAIN r) \cup (DOMAIN extra) |->
        IF f \in DOMAIN extra THEN extra[f] ELSE r[f]]

DiscInfoEvent(p) ==
    IF Len(p) < 2 THEN Raised("TypeError")
    ELSE InfoEvent("DiscInfo", p[1], p[2], Drop(p, 2))

TitleInfoEvent(p) ==
    IF Len(p) < 3 THEN Raised("TypeError")
    ELSE LET base == InfoEvent("TitleInfo", p[2], p[3], Drop(p, 3)) IN
         IF IsRaised(base) THEN base
         ELSE IF ~IntOk(p[1]) THEN Raised("ValueError")
         ELSE WithFields(base, [title_number |-> IntValue(p[1])])

StreamInfoEvent(p) ==
    IF Len(p) < 4 THEN Raised("TypeError")
    ELSE LET base == InfoEvent("StreamInfo", p[3], p[4], Drop(p, 4)) IN
         IF IsRaised(base) THEN base
         ELSE IF ~(IntOk(p[1]) /\ IntOk(p[2])) THEN Raised("ValueError")
         ELSE WithFields(base, [title_number |-> IntValue(p[1]),
                                stream_number |-> IntValue(p[2])])

\* BaseEvent.parse: the raw fields handed to the class constructor
ParseParams(raw_string) == SplitAll(SplitLast(raw_string, ":"), ",")

\* mutant: the tag is not upper-cased
MessageTypeAsWritten(raw_string) == Strip(SplitFirst(raw_string, ":"), Whitespace)

\* get_event line 211: the tag the line is dispatched on
MessageType(raw_string) == Strip(StrUpper(SplitFirst(raw_string, ":")), Whitespace)

TagMSG == <<"M", "S", "G">>
TagPRGC == <<"P", "R", "G", "C">>
TagPRGT == <<"P", "R", "G", "T">>
TagPRGV == <<"P", "R", "G", "V">>
TagDRV == <<"D", "R", "V">>
TagTCOUT == <<"T", "C", "O", "U", "T">>
TagCINFO == <<"C", "I", "N", "F", "O">>
TagTINFO == <<"T", "I", "N", "F", "O">>
TagSINFO == <<"S", "I", "N", "F", "O">>

\* get_event(raw_string): an event, NoEvent, or Raised(exc)
get_event(raw_string) ==
    LET message_type == MessageType(raw_string)
        p == ParseParams(raw_string)
    IN CASE message_type = TagMSG -> MessageEvent(p)
         [] message_type = TagPRGC -> ProgressCurrentEvent(p)
         [] message_type = TagPRGT -> ProgressTotalEvent(p)
         [] message_type = TagPRGV -> ProgressValueEvent(p)
         [] message_type = TagDRV -> DriveScanEvent(p)
         [] message_type = TagTCOUT -> TitleCountEvent(p)
         [] message_type = TagCINFO -> DiscInfoEvent(p)
         [] message_type = TagTINFO -> TitleInfoEvent(p)
         [] message_type = TagSINFO -> StreamInfoEvent(p)
         [] OTHER -> IF Len(Strip(raw_string, Whitespace)) <= 0 THEN NoEvent
                     ELSE UnknownEvent(p)

(***************************************************************************)
(* The text lines of the model.                                            *)
(***************************************************************************)
\* TAG:field,field,...
MkLine(tag, fields) == tag \o <<":">> \o Join(fields, ",")

\* the fields a PRGV line of the decoder harness is built from
PrgvFields == {<<"0">>, <<"1">>, <<"2">>, <<"4">>, <<"x">>}
PrgvLines ==
    {MkLine(TagPRGV, <<a, b, c>>) : a \in PrgvFields, b \in PrgvFields, c \in PrgvFields}

LineProgress == MkLine(TagPRGV, <<<<"1">>, <<"2">>, <<"4">>>>)
LineZeroLimit == MkLine(TagPRGV, <<<<"1">>, <<"2">>, <<"0">>>>)
LineFieldCount == MkLine(TagPRGV, <<<<"1">>, <<"2">>>>)
LineNotNumeric == MkLine(TagPRGV, <<<<"1">>, <<"x">>, <<"4">>>>)
LineUnknownAttribute == MkLine(TagCINFO, <<<<"5", "1">>, <<"0">>, <<"\"", "a", "\"">>>>)
LineBadDuration == MkLine(TagTINFO, <<<<"0">>, <<"9">>, <<"0">>, <<"\"", "1", ":", "0", "2", "\"">>>>)
LineDuration ==
    MkLine(TagTINFO, <<<<"3">>, <<"9">>, <<"0">>,
                       <<"\"", "1", ":", "0", "2", ":", "0", "3", ".", "5", "\"">>>>)
LineDiscName == MkLine(TagCINFO, <<<<"2">>, <<"0">>, <<"\"", "a", "\"">>>>)
LineMessage ==
    MkLine(TagMSG, <<<<"1">>, <<"0">>, <<"0">>, <<"\"", "H", "i", "\"">>, <<"0">>>>)
LineBlank == <<>>
LineSpaces == <<" ", " ">>
LineOther == <<"h", "e", "l", "l", "o">>

\* the malformed lines: each makes get_event raise
MalformedLines ==
    {LineZeroLimit, LineFieldCount, LineNotNumeric, LineUnknownAttribute, LineBadDuration}

\* the tags of get_event's match statement and the event class of each
TagTable ==
    <<TagMSG, TagPRGC, TagPRGT, TagPRGV, TagDRV, TagTCOUT, TagCINFO, TagTINFO,
      TagSINFO>>
TagTypes ==
    <<"Message", "ProgressCurrent", "ProgressTotal", "ProgressValue", "DriveScan",
      "TitleCount", "DiscInfo", "TitleInfo", "StreamInfo">>

\* tags that are in no case of the match statement
OtherTags ==
    {<<"X">>, TagMSG \o <<"S">>, <<"M", " ", "S", "G">>, <<>>, <<" ">>}

\* str.lower() on one character, and on a string
LowerChar(c) ==
    IF \E i \in 1..26 : Upper[i] = c
    THEN Lower[CHOOSE i \in 1..26 : Upper[i] = c]
    ELSE c
StrLower(s) == [i \in 1..Len(s) |-> LowerChar(s[i])]

\* the ways a tag is written in the lines of the decoder harness: as it is,
\* in lower case, in mixed case, and with whitespace around it
TagSpellings(tag) ==
    {tag, StrLower(tag),
     [i \in 1..Len(tag) |-> IF i = 1 THEN LowerChar(tag[i]) ELSE tag[i]],
     <<" ">> \o tag, StrLower(tag) \o <<"\t">>, <<" ">> \o StrLower(tag) \o <<" ">>}

\* field lists of 1, 3, 5 and 7 fields, each accepted by some event class
TagFields ==
    {<<<<"1">>>>,
     <<<<"1">>, <<"2">>, <<"4">>>>,
     <<<<"1">>, <<"0">>, <<"0">>, <<"0">>, <<"a">>>>,
     <<<<"0">>, <<"1">>, <<"1">>, <<"0">>, <<"a">>, <<"b">>, <<"c">>>>}

\* the lines that differ in their tag: every spelling of every tag, with a
\* field list after the colon or with nothing else on the line
TagLines ==
    LET tags == {TagTable[i] : i \in 1..Len(TagTable)} \cup OtherTags
        spellings == UNION {TagSpellings(tag) : tag \in tags}
    IN {MkLine(w, fields) : w \in spellings, fields \in TagFields} \cup spellings

\* str(n) for 0 <= n < 100
IdText(n) ==
    IF n < 10 THEN <<Digits[n + 1]>>
    ELSE <<Digits[(n \div 10) + 1], Digits[(n % 10) + 1]>>

\* the ids of the info lines of the decoder harness: the 51 attributes and
\* two ids after them
InfoIds == 0..(Len(ItemAttribute) + 1)

\* the value fields of the info lines: a number, a quoted name, a quoted
\* duration
ValueNumber == <<"5">>
ValueName == <<"\"", "a", "\"">>
ValueDuration == <<"\"", "1", ":", "0", "2", ":", "0", "3", ".", "5", "\"">>
InfoValues == {ValueNumber, ValueName, ValueDuration}

\* the three info tags with the fields that come before the attribute id
InfoHeads == {<<TagCINFO, <<>>>>, <<TagTINFO, <<<<"0">>>>>>, <<TagSINFO, <<<<"0">>, <<"1">>>>>>}

\* TAG:[title,[stream,]]id,0,value
InfoLine(head, id, value) == MkLine(head[1], head[2] \o <<IdText(id), <<"0">>, value>>)

InfoLines == {InfoLine(head, id, value) : head \in InfoHeads, id \in InfoIds, value \in InfoValues}

\* a string field as the tool writes it, in double quotes
Quoted(text) == <<"\"">> \o text \o <<"\"">>

\* the texts of the quoted fields of the decoder harness
QuotedTexts == {<<"a">>, <<"H", "i">>, <<>>}

\* a line of each tag that has string fields, every string field in quotes:
\* MSG with two parameters, PRGC and PRGT with a name, DRV with its names
QuotedMessage(x, y) ==
    MkLine(TagMSG, <<<<"1">>, <<"0">>, <<"2">>, Quoted(x), Quoted(y), Quoted(y), Quoted(x)>>)
QuotedProgress(tag, x) == MkLine(tag, <<<<"1">>, <<"0">>, Quoted(x)>>)
QuotedDrive(x, y) ==
    MkLine(TagDRV, <<<<"0">>, <<"1">>, <<"1">>, <<"0">>, Quoted(x), Quoted(y), Quoted(x)>>)
QuotedLines ==
    {QuotedMessage(x, y) : x \in QuotedTexts, y \in QuotedTexts}
    \cup {QuotedProgress(tag, x) : tag \in {TagPRGC, TagPRGT}, x \in QuotedTexts}
    \cup {QuotedDrive(x, y) : x \in QuotedTexts, y \in QuotedTexts}

\* the lines the decoder harness decodes
DecodeLines ==
    PrgvLines \cup MalformedLines \cup TagLines \cup InfoLines \cup QuotedLines
    \cup {LineProgress, LineDuration, LineDiscName, LineMessage, LineBlank,
          LineSpaces, LineOther}

\* what readline() returns for a line of text: the line and its terminator
WithNewline(l) == l \o <<"\n">>

\* the lines the external tool may write in the device model
ToolLines == {WithNewline(LineProgress), WithNewline(LineBlank), WithNewline(LineZeroLimit)}

RECURSIVE SeqsUpTo(_, _)
SeqsUpTo(S, n) ==
    IF n = 0 THEN {<<>>}
    ELSE SeqsUpTo(S, n - 1) \cup
         {Append(q, x) : q \in {r \in SeqsUpTo(S, n - 1) : Len(r) = n - 1}, x \in S}

\* what one run of the tool writes before it exits
ToolScripts == SeqsUpTo(ToolLines, MaxLines)

\* the lines and the scripts of the read-loop harness: lines that decode to
\* an event and lines that decode to None
ReadLines == {WithNewline(LineProgress), WithNewline(LineBlank), WithNewline(LineSpaces)}
ReadScripts == SeqsUpTo(ReadLines, MaxBurst)

\* events.get_event on each text the tool can write, terminators stripped:
\* decoding is a pure function of the text, so it is tabulated once
ToolTexts == {RStrip(l, {"\r", "\n"}) : l \in ToolLines \cup ReadLines}
EventOf == [text \in ToolTexts |-> get_event(text)]

(***************************************************************************)
(* The device model: tasks of one event loop that use one Drive and its    *)
(* Source.  A task is at one of the points where its coroutine is          *)
(* suspended; an action runs the code from one such point to the next.     *)
(***************************************************************************)
Tasks == 1..NumTasks
NoTask == 0

\* cdrom.py: the request codes and the drive status values
CDROMEJECT == 21257
CDROMCLOSETRAY == 21273
CDROM_DRIVE_STATUS == 21286
CDROM_LOCKDOOR == 21289
CDS_NO_DISC == 1
CDS_TRAY_OPEN == 2
CDS_DISC_OK == 4

\* a task that has not called anything yet
IdleTask ==
    [pc |-> "idle", op |-> "none", wait_for_queue |-> FALSE,
     command_number |-> -1, history |-> <<>>,
     request |-> 0, arg |-> 0, result |-> -1, fd |-> FALSE,
     busy |-> 0, issued |-> FALSE, answer |-> "none", thread |-> FALSE,
     states |-> {}, invert |-> FALSE, sleeps |-> 0, ops |-> <<>>,
     step |-> "none", autoclose |-> FALSE, timeouts |-> 0,
     scope |-> "none", pending |-> "none", exc |-> "none"]

\* Source.__init__: self.process = None
NoProcess == [state |-> "none", returncode |-> "None", script |-> <<>>, pipe |-> <<>>]

\* a task that has not made its call yet; the tasks are numbered in the
\* order in which they make their calls
CanCall(t) ==
    /\ task[t].pc = "idle"
    /\ \A u \in Tasks : u < t => task[u].pc # "idle"

\* mutant: run_command does not wait for the lock
LockNeverWaited == TRUE

\* asyncio.Lock: acquire() returns at once when the lock is free
LockFree == lock = NoTask

\* leaving "async with self.lock": the lock is released if t holds it
Released(t) == IF lock = t THEN NoTask ELSE lock

\* mutant: an exception leaves the lock held
HeldOnError(t) == lock

\* leaving "async with self.lock" through an exception
ReleasedOnError(t) == Released(t)

\* asyncio.Queue.put on the unbounded event queue (EVENT_QUEUE_SIZE = 0)
QueuePut(q, evs) == q \o evs

\* mutant: the counter is not advanced
SameCommandCounter(c) == c

\* run_command line 30: self.command_counter += 1
NextCommandCounter(c) == c + 1

\* run_command lines 28-37: with the lock held, take the command number,
\* push Start and start spawning the tool
RunCommandBegin(t, wait) ==
    LET event == StartEvent(command_counter) IN
    /\ lock' = t
    /\ command_counter' = NextCommandCounter(command_counter)
    /\ event_queue' = QueuePut(event_queue, <<event>>)
    /\ unfinished' = unfinished + 1
    /\ stream' = stream \o <<event>>
    /\ task' = [task EXCEPT ![t] =
                  [IdleTask EXCEPT !.pc = "rc_spawn", !.op = "run_command",
                                   !.wait_for_queue = wait,
                                   !.command_number = command_counter,
                                   !.history = <<event>>]]

\* a task calls run_command(args, wait_for_queue): it takes the free lock at
\* once, or waits for it
RunCommandCall(t, wait) ==
    /\ CanCall(t)
    /\ IF LockFree
       THEN RunCommandBegin(t, wait)
       ELSE /\ task' = [task EXCEPT ![t] =
                          [IdleTask EXCEPT !.pc = "rc_lock", !.op = "run_command",
                                           !.wait_for_queue = wait]]
            /\ UNCHANGED <<lock, command_counter, event_queue, unfinished, stream>>
    /\ UNCHANGED <<process, door, cancels, lines, decoderVars, publisherVars,
                   converterVars, cdromVars>>

\* the waiting run_command gets the lock
RunCommandAcquire(t) ==
    /\ task[t].pc = "rc_lock"
    /\ LockFree
    /\ RunCommandBegin(t, task[t].wait_for_queue)
    /\ UNCHANGED <<process, door, cancels, lines, decoderVars, publisherVars,
                   converterVars, cdromVars>>

\* create_subprocess_exec returns the started process, which will write the
\* lines of script
SpawnTool(t, script) ==
    /\ task[t].pc = "rc_spawn"
    /\ lines' = lines + Len(script)
    /\ process' = [state |-> "running", returncode |-> "None",
                   script |-> script, pipe |-> <<>>]
    /\ task' = [task EXCEPT ![t].pc = "rc_read"]
    /\ UNCHANGED <<lock, command_counter, event_queue, unfinished, door, stream,
                   cancels, decoderVars, publisherVars,
                   converterVars, cdromVars>>

\* create_subprocess_exec returns the started process, within the budget of
\* lines of the behaviour
SpawnOk(t, script) ==
    /\ lines + Len(script) <= MaxLines
    /\ SpawnTool(t, script)

\* an exception leaves run_command: the lock is released, nothing else is
\* done, and the local history is lost with the frame
RunCommandRaise(t, exc) ==
    /\ lock' = ReleasedOnError(t)
    /\ task' = [task EXCEPT ![t].pc = "raised", ![t].exc = exc, ![t].history = <<>>,
                            ![t].timeouts = 0]

\* create_subprocess_exec raises: the tool cannot be spawned
SpawnFail(t) ==
    /\ task[t].pc = "rc_spawn"
    /\ RunCommandRaise(t, "SpawnFailure")
    /\ UNCHANGED <<command_counter, event_queue, unfinished, process, door, stream,
                   cancels, lines, decoderVars, publisherVars,
                   converterVars, cdromVars>>

\* the tool writes its next line to stdout
ToolWrite ==
    /\ process.state = "running"
    /\ process.script # <<>>
    /\ process' = [process EXCEPT !.script = Tail(@),
                                  !.pipe = Append(@, Head(process.script))]
    /\ UNCHANGED <<lock, command_counter, event_queue, unfinished, task, door,
                   stream, cancels, lines, decoderVars, publisherVars,
                   converterVars, cdromVars>>

\* the tool exits: its end of the pipe is closed
ToolExit ==
    /\ process.state = "running"
    /\ process.script = <<>>
    /\ process' = [process EXCEPT !.state = "exited"]
    /\ UNCHANGED <<lock, command_counter, event_queue, unfinished, task, door,
                   stream, cancels, lines, decoderVars, publisherVars,
                   converterVars, cdromVars>>

\* the event loop's child watcher sets process.returncode
ToolReaped ==
    /\ process.state = "exited"
    /\ process.returncode = "None"
    /\ process' = [process EXCEPT !.returncode = "0"]
    /\ UNCHANGED <<lock, command_counter, event_queue, unfinished, task, door,
                   stream, cancels, lines, decoderVars, publisherVars,
                   converterVars, cdromVars>>

\* run_command line 45: the loop test after an iteration
AfterIteration == IF process.returncode = "None" THEN "rc_read" ELSE "rc_comm"

\* run_command lines 47-66: readline returns a line within the timeout
ReadLine(t) ==
    /\ task[t].pc = "rc_read"
    /\ process.pipe # <<>>
    /\ \E event \in {EventOf[RStrip(Head(process.pipe), {"\r", "\n"})]} :
       /\ process' = [process EXCEPT !.pipe = Tail(@)]
       /\ IF IsRaised(event)
          THEN /\ RunCommandRaise(t, event.exc)
               /\ UNCHANGED <<event_queue, unfinished, stream>>
          ELSE IF event = NoEvent
          THEN /\ task' = [task EXCEPT ![t].pc = AfterIteration, ![t].timeouts = 0]
               /\ UNCHANGED <<lock, event_queue, unfinished, stream>>
          ELSE /\ event_queue' = QueuePut(event_queue, <<event>>)
               /\ unfinished' = unfinished + 1
               /\ stream' = stream \o <<event>>
               /\ task' = [task EXCEPT ![t].pc = AfterIteration,
                                       ![t].history = Append(@, event),
                                       ![t].timeouts = 0]
               /\ UNCHANGED lock
    /\ UNCHANGED <<command_counter, door, cancels, lines, decoderVars, publisherVars,
                   converterVars, cdromVars>>

\* mutant: the TimeoutError leaves the loop
TimeoutEndsLoop == "rc_comm"

\* run_command lines 67-69, 45: TimeoutError is passed over and the loop test
\* is made
AfterTimeout == AfterIteration

\* the consecutive timeouts of the read loop, counted up to MaxTimeouts
TimeoutsAfter(n) == IF n < MaxTimeouts THEN n + 1 ELSE n

\* run_command lines 67-69: no line within the timeout, TimeoutError is passed over
ReadTimeout(t) ==
    /\ task[t].pc = "rc_read"
    /\ process.pipe = <<>>
    /\ process.state = "running"
    /\ task' = [task EXCEPT ![t].pc = AfterTimeout,
                            ![t].timeouts = TimeoutsAfter(@)]
    /\ UNCHANGED <<lock, command_counter, event_queue, unfinished, process, door,
                   stream, cancels, lines, decoderVars, publisherVars,
                   converterVars, cdromVars>>

\* run_command lines 52-64: readline returns b"" at end of file; the loop
\* sleeps, decodes the empty line to None and goes round
ReadEOF(t) ==
    /\ task[t].pc = "rc_read"
    /\ process.pipe = <<>>
    /\ process.state = "exited"
    /\ get_event(<<>>) = NoEvent
    /\ task' = [task EXCEPT ![t].pc = AfterIteration, ![t].timeouts = 0]
    /\ UNCHANGED <<lock, command_counter, event_queue, unfinished, process, door,
                   stream, cancels, lines, decoderVars, publisherVars,
                   converterVars, cdromVars>>

\* str.splitlines() on the buffered output: the lines without their terminators
SplitLines(pipe) == [i \in 1..Len(pipe) |-> RStrip(pipe[i], {"\r", "\n"})]

\* run_command lines 74-78: what the drain loop gets for each buffered line
DrainEvents(pipe) == [i \in 1..Len(pipe) |-> EventOf[RStrip(SplitLines(pipe)[i], {"\r", "\n"})]]

\* the position of the first line of the drain that raises, 0 if none does
FirstRaised(evs) ==
    IF \E i \in 1..Len(evs) : IsRaised(evs[i])
    THEN CHOOSE i \in 1..Len(evs) : IsRaised(evs[i]) /\ \A j \in 1..(i - 1) : ~IsRaised(evs[j])
    ELSE 0

\* run_command lines 85-86: with wait_for_queue the run waits in join()
AfterStop(wait) == IF wait THEN "rc_join" ELSE "done"

\* run_command lines 72-87: communicate() returns the buffered output; every
\* line of it is decoded and pushed, then Stop; without wait_for_queue the
\* lock is released and the call returns
Communicate(t) ==
    /\ task[t].pc = "rc_comm"
    /\ process.state = "exited"
    /\ \E evs \in {DrainEvents(process.pipe)} :
       \E bad \in {FirstRaised(evs)} :
       \E pushed \in {IF bad = 0 THEN Append(evs, StopEvent(task[t].command_number))
                       ELSE SubSeq(evs, 1, bad - 1)} :
          /\ process' = [process EXCEPT !.pipe = <<>>]
          /\ event_queue' = QueuePut(event_queue, pushed)
          /\ unfinished' = unfinished + Len(pushed)
          /\ stream' = stream \o pushed
          /\ IF bad = 0
             THEN /\ task' = [task EXCEPT ![t].pc = AfterStop(task[t].wait_for_queue),
                                          ![t].history = @ \o pushed]
                  /\ lock' = IF task[t].wait_for_queue THEN lock ELSE Released(t)
             ELSE RunCommandRaise(t, evs[bad].exc)
    /\ UNCHANGED <<command_counter, door, cancels, lines, decoderVars, publisherVars,
                   converterVars, cdromVars>>

\* mutant: join() does not wait
JoinNeverWaits == TRUE

\* asyncio.Queue.join() returns when every item put has been marked done
JoinReady == unfinished = 0

\* run_command lines 86-87: join() returns, the lock is released, the call returns
JoinDone(t) ==
    /\ task[t].pc = "rc_join"
    /\ JoinReady
    /\ lock' = Released(t)
    /\ task' = [task EXCEPT ![t].pc = "done"]
    /\ UNCHANGED <<command_counter, event_queue, unfinished, process, door, stream,
                   cancels, lines, decoderVars, publisherVars,
                   converterVars, cdromVars>>

\* Source.get_event: a consumer takes the oldest event and marks it done
TakeEvent ==
    /\ event_queue # <<>>
    /\ event_queue' = Tail(event_queue)
    /\ unfinished' = unfinished - 1

\* a consumer of the Source calls get_event
GetEvent ==
    /\ TakeEvent
    /\ UNCHANGED <<lock, command_counter, process, task, door, stream, cancels, lines, decoderVars, publisherVars,
                   converterVars, cdromVars>>

(***************************************************************************)
(* drive.py: Drive.run_ioctl and the operations built on it.  Drive.lock   *)
(* is the Source's lock (Drive.__init__), so the same variable serves.     *)
(***************************************************************************)
\* Drive.__init__ line 34: run_ioctl may enter when the Source's lock is free
DriveLockFree == LockFree

\* what a successful hardware call may return for a request
ResultsOf(request) ==
    IF request = CDROM_DRIVE_STATUS THEN {CDS_NO_DISC, CDS_TRAY_OPEN, CDS_DISC_OK} ELSE {0}

\* the hardware operations a task may call directly: get_status(), lock_door()
IoctlCalls == {<<CDROM_DRIVE_STATUS, 0>>, <<CDROM_LOCKDOOR, 1>>}

\* run_ioctl lines 38-49 for the task record tr of a task that has just
\* called run_ioctl: with the lock free it is taken, the device is opened
\* and the hardware call is handed to a worker thread; os.open may raise,
\* which leaves run_ioctl with the lock released; with the lock held by
\* another task the caller waits
StartIoctl(t, tr, opened) ==
    IF DriveLockFree
    THEN IF opened
         THEN /\ lock' = t
              /\ task' = [task EXCEPT ![t] =
                            [tr EXCEPT !.pc = "io_call", !.fd = TRUE, !.issued = TRUE,
                                       !.thread = TRUE]]
         ELSE /\ task' = [task EXCEPT ![t] = [tr EXCEPT !.pc = "raised", !.exc = "OSError"]]
              /\ UNCHANGED lock
    ELSE /\ task' = [task EXCEPT ![t] = [tr EXCEPT !.pc = "io_lock"]]
         /\ UNCHANGED lock

\* a task calls run_ioctl(request, arg)
IoctlCall(t, call, opened) ==
    /\ CanCall(t)
    /\ StartIoctl(t, [IdleTask EXCEPT !.op = "run_ioctl", !.request = call[1],
                                      !.arg = call[2]], opened)
    /\ UNCHANGED <<command_counter, event_queue, unfinished, process, door, stream,
                   cancels, lines, decoderVars, publisherVars,
                   converterVars, cdromVars>>

\* the waiting run_ioctl gets the lock
IoctlAcquire(t, opened) ==
    /\ task[t].pc = "io_lock"
    /\ DriveLockFree
    /\ StartIoctl(t, task[t], opened)
    /\ UNCHANGED <<command_counter, event_queue, unfinished, process, door, stream,
                   cancels, lines, decoderVars, publisherVars,
                   converterVars, cdromVars>>

\* the door latch after a successful hardware call
DoorAfter(request, arg) ==
    IF request = CDROM_LOCKDOOR
    THEN IF arg = 1 THEN "locked" ELSE "unlocked"
    ELSE door

\* mutant: invert is ignored
InStateNotInverted(status, states, invert) == status \in states

\* is_in_state line 132: (status in states) ^ invert
InState(status, states, invert) == (status \in states) # invert

\* the run_ioctl of the call is a status sample of wait_for_state, called
\* directly or by cycle (wait_tray_opened, wait_tray_closed)
Sampling(tr) ==
    \/ tr.op = "wait_for_state"
    \/ tr.op = "cycle" /\ tr.step \in {"wait_open", "wait_closed"}

\* the polling sleeps taken so far by all the tasks
RECURSIVE SleepsUpTo(_)
SleepsUpTo(n) == IF n = 0 THEN 0 ELSE task[n].sleeps + SleepsUpTo(n - 1)
TotalSleeps == SleepsUpTo(NumTasks)

\* where the caller of run_ioctl goes on when it returns: a direct call is
\* over; locked_door's entry reaches the body (the yield); locked_door's
\* exit re-raises what left the body, if anything did; wait_for_state
\* returns on a sample that is in the state and sleeps on one that is not
AfterIoctl(tr) ==
    IF Sampling(tr)
    THEN IF InState(tr.result, tr.states, tr.invert)
         THEN [tr EXCEPT !.pc = "done"]
         ELSE [tr EXCEPT !.pc = "ws_sleep", !.sleeps = @ + 1]
    ELSE IF tr.scope = "enter" THEN [tr EXCEPT !.pc = "ld_body", !.scope = "body"]
    ELSE IF tr.scope = "exit" /\ tr.pending # "none"
    THEN [tr EXCEPT !.pc = "raised", !.exc = tr.pending]
    ELSE [tr EXCEPT !.pc = "done"]

\* cycle lines 165-170, open_tray lines 113-115: after this step of cycle
\* has got the result res, cycle goes straight on to another run_ioctl
Continues(tr, res) ==
    /\ tr.op = "cycle"
    /\ \/ tr.step \in {"unlock", "eject", "close"}
       \/ tr.step = "wait_open" /\ InState(res, tr.states, tr.invert)

\* mutant: the lock stays with the caller when run_ioctl returns
HeldOnReturn(t) == lock

\* run_ioctl lines 38, 59: the "async with" block is left before the return
ReleasedOnReturn(t) == Released(t)

\* run_ioctl lines 43-50, 58-59: the hardware call succeeds; the device is
\* closed, the lock released and the result returned
IoctlOk(t, res) ==
    /\ task[t].pc = "io_call"
    /\ ~Continues(task[t], res)
    /\ res \in ResultsOf(task[t].request)
    /\ (Sampling(task[t]) /\ ~InState(res, task[t].states, task[t].invert))
          => TotalSleeps < MaxSleeps
    /\ door' = DoorAfter(task[t].request, task[t].arg)
    /\ lock' = ReleasedOnReturn(t)
    /\ task' = [task EXCEPT ![t] =
                  AfterIoctl([task[t] EXCEPT !.result = res, !.fd = FALSE, !.busy = 0,
                                             !.answer = "ok", !.thread = FALSE,
                                             !.ops = Append(@, <<task[t].request,
                                                                 task[t].arg, res>>)])]
    /\ UNCHANGED <<command_counter, event_queue, unfinished, process, stream,
                   cancels, lines, decoderVars, publisherVars,
                   converterVars, cdromVars>>

\* run_ioctl lines 43-50, 58-59, wait_for_state lines 121-124: a status
\* sample of a wait that has used up the counted sleeps is not in the state
\* either; the wait sleeps again and goes on for ever, its sleeps and its
\* calls no longer counted
PollMiss(t, res) ==
    /\ task[t].pc = "io_call"
    /\ Sampling(task[t])
    /\ res \in ResultsOf(task[t].request)
    /\ ~InState(res, task[t].states, task[t].invert)
    /\ TotalSleeps >= MaxSleeps
    /\ door' = DoorAfter(task[t].request, task[t].arg)
    /\ lock' = ReleasedOnReturn(t)
    /\ task' = [task EXCEPT ![t] =
                  [task[t] EXCEPT !.pc = "ws_sleep", !.result = res, !.fd = FALSE,
                                  !.busy = 0, !.answer = "ok", !.thread = FALSE]]
    /\ UNCHANGED <<command_counter, event_queue, unfinished, process, stream,
                   cancels, lines, decoderVars, publisherVars,
                   converterVars, cdromVars>>

\* mutant: no error is retried
NeverBusy(errno) == FALSE

\* run_ioctl line 52: only errno EBUSY is retried
IsBusy(errno) == errno = "EBUSY"

\* run_ioctl lines 51-55: the hardware call raises OSError; EBUSY is slept
\* over and retried, any other error is raised again with the device left open
IoctlOSError(t, errno) ==
    /\ task[t].pc = "io_call"
    /\ IF IsBusy(errno)
       THEN /\ task[t].busy < MaxBusy
            /\ task' = [task EXCEPT ![t].pc = "io_sleep", ![t].busy = @ + 1,
                                    ![t].answer = errno, ![t].thread = FALSE]
            /\ UNCHANGED lock
       ELSE /\ lock' = ReleasedOnError(t)
            /\ task' = [task EXCEPT ![t].pc = "raised", ![t].exc = "OSError",
                                    ![t].busy = 0, ![t].answer = errno,
                                    ![t].thread = FALSE]
    /\ UNCHANGED <<command_counter, event_queue, unfinished, process, door, stream,
                   cancels, lines, decoderVars, publisherVars,
                   converterVars, cdromVars>>

\* run_ioctl lines 53-54, 43: the sleep is over, the hardware call is made again
IoctlRetry(t) ==
    /\ task[t].pc = "io_sleep"
    /\ task' = [task EXCEPT ![t].pc = "io_call", ![t].thread = TRUE]
    /\ UNCHANGED <<stream, lock, command_counter, event_queue, unfinished, process, door,
                   cancels, lines, decoderVars, publisherVars,
                   converterVars, cdromVars>>

\* mutant: cycle commands the tray to close whatever autoclose is
AlwaysCloses(tr) == TRUE

\* cycle line 168: if autoclose
ClosesTray(tr) == tr.autoclose

\* wait_tray_opened line 147 and wait_tray_closed line 150 as steps of cycle
WaitStep(tr, step, invert) ==
    [tr EXCEPT !.step = step, !.request = CDROM_DRIVE_STATUS, !.arg = 0,
               !.states = {CDS_TRAY_OPEN}, !.invert = invert]

\* cycle lines 166-170, open_tray line 115: the run_ioctl that follows the
\* step of cycle that has just succeeded
NextCall(tr) ==
    LET nx == [tr EXCEPT !.result = -1, !.issued = FALSE, !.answer = "none"]
    IN CASE tr.step = "unlock" ->
                [nx EXCEPT !.step = "eject", !.request = CDROMEJECT, !.arg = 0]
         [] tr.step = "eject" -> WaitStep(nx, "wait_open", FALSE)
         [] tr.step = "wait_open" ->
                IF ClosesTray(tr)
                THEN [nx EXCEPT !.step = "close", !.request = CDROMCLOSETRAY, !.arg = 0]
                ELSE WaitStep(nx, "wait_closed", TRUE)
         [] tr.step = "close" -> WaitStep(nx, "wait_closed", TRUE)

\* asyncio.Lock.acquire: a task is waiting for the lock
LockWaited == \E u \in Tasks : task[u].pc \in {"io_lock", "rc_lock"}

\* run_ioctl lines 43-50, 58-59, then 38-49 of the next call: the hardware
\* call of a step of cycle succeeds, the device is closed, the lock released
\* and, with no suspension in between, cycle calls its next run_ioctl, which
\* takes the lock again unless a task is already waiting for it
IoctlOkNext(t, res, opened) ==
    /\ task[t].pc = "io_call"
    /\ res \in ResultsOf(task[t].request)
    /\ Continues(task[t], res)
    /\ door' = DoorAfter(task[t].request, task[t].arg)
    /\ \E tr \in {NextCall([task[t] EXCEPT !.result = res, !.fd = FALSE, !.busy = 0,
                                            !.answer = "ok", !.thread = FALSE,
                                            !.ops = Append(@, <<task[t].request,
                                                                task[t].arg, res>>)])} :
          IF LockWaited
          THEN /\ lock' = Released(t)
               /\ task' = [task EXCEPT ![t] = [tr EXCEPT !.pc = "io_lock"]]
          ELSE IF opened
          THEN /\ lock' = t
               /\ task' = [task EXCEPT ![t] =
                             [tr EXCEPT !.pc = "io_call", !.fd = TRUE, !.issued = TRUE,
                                        !.thread = TRUE]]
          ELSE /\ lock' = Released(t)
               /\ task' = [task EXCEPT ![t] = [tr EXCEPT !.pc = "raised", !.exc = "OSError"]]
    /\ UNCHANGED <<command_counter, event_queue, unfinished, process, stream,
                   cancels, lines, decoderVars, publisherVars,
                   converterVars, cdromVars>>

\* cycle line 166, open_tray line 114: a task calls cycle(autoclose), which
\* first unlocks the door; one task cycles the tray (Ripper.drive_loop)
CycleCall(t, autoclose, opened) ==
    /\ CanCall(t)
    /\ \A u \in Tasks : task[u].op # "cycle"
    /\ StartIoctl(t, [IdleTask EXCEPT !.op = "cycle", !.step = "unlock",
                                      !.autoclose = autoclose,
                                      !.request = CDROM_LOCKDOOR, !.arg = 0], opened)
    /\ UNCHANGED <<command_counter, event_queue, unfinished, process, door, stream,
                   cancels, lines, decoderVars, publisherVars,
                   converterVars, cdromVars>>

\* the calls of wait_for_state the tasks make: wait_disc_ok, wait_tray_closed
WaitCalls == {<<{CDS_DISC_OK}, FALSE>>, <<{CDS_TRAY_OPEN}, TRUE>>}

\* wait_for_state lines 120-122, is_in_state lines 126-131: a task calls
\* wait_for_state(states, invert), which takes its first status sample
WaitCall(t, call, opened) ==
    /\ CanCall(t)
    /\ StartIoctl(t, [IdleTask EXCEPT !.op = "wait_for_state",
                                      !.request = CDROM_DRIVE_STATUS,
                                      !.states = call[1], !.invert = call[2]], opened)
    /\ UNCHANGED <<command_counter, event_queue, unfinished, process, door, stream,
                   cancels, lines, decoderVars, publisherVars,
                   converterVars, cdromVars>>

\* wait_for_state lines 124, 121-122: the polling sleep is over and the next
\* status sample is taken
WaitWake(t, opened) ==
    /\ task[t].pc = "ws_sleep"
    /\ StartIoctl(t, [task[t] EXCEPT !.result = -1, !.issued = FALSE,
                                     !.answer = "none"], opened)
    /\ UNCHANGED <<command_counter, event_queue, unfinished, process, door, stream,
                   cancels, lines, decoderVars, publisherVars,
                   converterVars, cdromVars>>

\* locked_door line 107: a task enters "async with drive.locked_door()"
LockedDoorCall(t, opened) ==
    /\ CanCall(t)
    /\ StartIoctl(t, [IdleTask EXCEPT !.op = "locked_door", !.scope = "enter",
                                      !.request = CDROM_LOCKDOOR, !.arg = 1], opened)
    /\ UNCHANGED <<command_counter, event_queue, unfinished, process, door, stream,
                   cancels, lines, decoderVars, publisherVars,
                   converterVars, cdromVars>>

\* locked_door lines 110-111: the finally clause calls unlock_door, whatever
\* left the body ("none" for a normal end)
UnlockOnExit(t, how, opened) ==
    StartIoctl(t, [task[t] EXCEPT !.scope = "exit", !.pending = how,
                                  !.request = CDROM_LOCKDOOR, !.arg = 0,
                                  !.result = -1, !.issued = FALSE,
                                  !.answer = "none"], opened)

\* the body of the scope ends normally or raises
BodyExit(t, how, opened) ==
    /\ task[t].pc = "ld_body"
    /\ how \in {"none", "BodyError"}
    /\ UnlockOnExit(t, how, opened)
    /\ UNCHANGED <<command_counter, event_queue, unfinished, process, door, stream,
                   cancels, lines, decoderVars, publisherVars,
                   converterVars, cdromVars>>

\* the task is cancelled while the body of the scope is suspended
CancelBody(t, opened) ==
    /\ task[t].pc = "ld_body"
    /\ cancels < MaxCancels
    /\ cancels' = cancels + 1
    /\ UnlockOnExit(t, "CancelledError", opened)
    /\ UNCHANGED <<command_counter, event_queue, unfinished, process, door, stream,
                   lines, decoderVars, publisherVars,
                   converterVars, cdromVars>>

\* the points where a coroutine of run_command or run_ioctl is suspended
SuspendedAt == {"rc_lock", "rc_spawn", "rc_read", "rc_comm", "rc_join",
                "io_lock", "io_call", "io_sleep"}

\* the task is cancelled inside run_command or run_ioctl: CancelledError is
\* caught nowhere, "async with" releases the lock and nothing else is done;
\* a worker thread that is inside the hardware call goes on with it
Cancel(t) ==
    /\ task[t].pc \in SuspendedAt
    /\ cancels < MaxCancels
    /\ cancels' = cancels + 1
    /\ lock' = ReleasedOnError(t)
    /\ task' = [task EXCEPT ![t].pc = "raised", ![t].exc = "CancelledError",
                            ![t].busy = 0, ![t].history = <<>>, ![t].timeouts = 0]
    /\ UNCHANGED <<command_counter, event_queue, unfinished, process, door, stream,
                   lines, decoderVars, publisherVars,
                   converterVars, cdromVars>>

\* run_ioctl lines 43-49 after a cancellation: the worker thread of
\* asyncio.to_thread ends the hardware call, whose result nobody awaits
ThreadReturns(t, ok) ==
    /\ task[t].pc = "raised"
    /\ task[t].thread
    /\ task' = [task EXCEPT ![t].thread = FALSE]
    /\ door' = IF ok THEN DoorAfter(task[t].request, task[t].arg) ELSE door
    /\ UNCHANGED <<lock, command_counter, event_queue, unfinished, process, stream,
                   cancels, lines, decoderVars, publisherVars,
                   converterVars, cdromVars>>

(***************************************************************************)
(* ripper.py: RipperServer.scan_disc.  One task holds the door locked,     *)
(* starts get_info as a task of its own and consumes the Source's events   *)
(* until it meets a Stop; then it awaits the get_info task.                *)
(***************************************************************************)
\* t is the task of scan_disc, between its call and its end
Scanning(t) == task[t].op = "scan_disc"

\* scan_disc line 109: "async with self.controller.locked_door()" is entered
ScanDiscCall(t, opened) ==
    /\ CanCall(t)
    /\ \A u \in Tasks : ~Scanning(u)
    /\ StartIoctl(t, [IdleTask EXCEPT !.op = "scan_disc", !.scope = "enter",
                                      !.step = "create",
                                      !.request = CDROM_LOCKDOOR, !.arg = 1], opened)
    /\ UNCHANGED <<command_counter, event_queue, unfinished, process, door, stream,
                   cancels, lines, decoderVars, publisherVars,
                   converterVars, cdromVars>>

\* scan_disc lines 111-116: create_task(get_info()) and the first progress
\* message, which is put on the publisher's queue without a suspension
ScanCreateTask(t) ==
    /\ Scanning(t)
    /\ task[t].pc = "ld_body"
    /\ task[t].step = "create"
    /\ task' = [task EXCEPT ![t].step = "loop"]
    /\ UNCHANGED <<lock, command_counter, event_queue, unfinished, process, door,
                   stream, cancels, lines, decoderVars, publisherVars,
                   converterVars, cdromVars>>

\* get_info lines 100-102, run_info lines 94-98: the task created by
\* scan_disc makes its first step, run_command with wait_for_queue=True
InfoTaskStart(u) ==
    /\ \E t \in Tasks : Scanning(t) /\ task[t].step # "create"
    /\ \A v \in Tasks : task[v].op # "run_command"
    /\ RunCommandCall(u, TRUE)

\* scan_disc lines 118-141: the match on the type of the event; Stop breaks
\* the loop, every other event goes round
AfterEvent(event) == IF event.type = "Stop" THEN "await" ELSE "loop"

\* scan_disc line 119: the loop gets the next event from the Source
ScanGetEvent(t) ==
    /\ Scanning(t)
    /\ task[t].pc = "ld_body"
    /\ task[t].step = "loop"
    /\ TakeEvent
    /\ task' = [task EXCEPT ![t].step = AfterEvent(Head(event_queue))]
    /\ UNCHANGED <<lock, command_counter, process, door, stream, cancels, lines,
                   decoderVars, publisherVars, converterVars, cdromVars>>

\* scan_disc line 161: "return await info_task" once the get_info task has
\* ended; its exception, if it has one, is raised here; either way the
\* locked_door scope is left and unlocks the door
ScanAwaitInfo(t, opened) ==
    /\ Scanning(t)
    /\ task[t].pc = "ld_body"
    /\ task[t].step = "await"
    /\ \E u \in Tasks :
          /\ task[u].op = "run_command"
          /\ task[u].pc \in {"done", "raised"}
          /\ UnlockOnExit(t, IF task[u].pc = "done" THEN "none" ELSE task[u].exc, opened)
    /\ UNCHANGED <<command_counter, event_queue, unfinished, process, door, stream,
                   cancels, lines, decoderVars, publisherVars,
                   converterVars, cdromVars>>

\* the task of scan_disc is cancelled while it waits in get_event or for the
\* get_info task, which is not cancelled with it
ScanCancel(t, opened) ==
    /\ Scanning(t)
    /\ task[t].step \in {"loop", "await"}
    /\ CancelBody(t, opened)

(***************************************************************************)
(* The outbound publisher: MQTTWrapper.enqueue_message and send_loop.      *)
(* Messages are numbered in the order in which they are enqueued.          *)
(***************************************************************************)
Messages == 1..MaxMessages
NoMessage == 0

\* MQTTWrapper.__init__ line 10: asyncio.Queue() has maxsize 0
MessageQueueSize == 0

\* mutant: the queue holds one message at most
QueueOfOneFull(q) == Len(q) >= 1

\* asyncio.Queue.full(): never with maxsize 0
QueueFull(q) == MessageQueueSize > 0 /\ Len(q) >= MessageQueueSize

\* enqueue_message lines 12-21: a producer puts the next message; put()
\* returns at once unless the queue is full, which suspends the producer
EnqueueMessage ==
    /\ Len(enqueued) + Len(putters) < MaxMessages
    /\ \E m \in {Len(enqueued) + Len(putters) + 1} :
          IF QueueFull(message_queue)
          THEN /\ putters' = Append(putters, m)
               /\ UNCHANGED <<message_queue, enqueued, put_states>>
          ELSE /\ message_queue' = Append(message_queue, m)
               /\ enqueued' = Append(enqueued, m)
               /\ put_states' = put_states \cup {worker}
               /\ UNCHANGED putters
    /\ UNCHANGED <<worker, message, remaining_retries, taken, delivered, dropped,
                   failures, decoderVars, deviceVars,
                   converterVars, cdromVars>>

\* mutant: get() returns the newest message
QueueTakeNewest(q) ==
    [message |-> q[Len(q)], rest |-> SubSeq(q, 1, Len(q) - 1)]

\* asyncio.Queue.get() on a queue that is not empty: the oldest message
QueueTake(q) == [message |-> Head(q), rest |-> Tail(q)]

\* mutant: the message that was got stays in the queue
RestWithMessage(q, got) == q

\* asyncio.Queue after a get(): the message is gone and a suspended put(),
\* if there is one, goes through
RestAfterGet(q, got) ==
    IF putters = <<>> THEN got.rest ELSE Append(got.rest, Head(putters))

\* send_loop lines 24, 32, 38: topic, payload, kwargs = await
\* self.message_queue.get(), with a message in the queue; pc is where the
\* coroutine is suspended next
GetMessage(pc) ==
    /\ message_queue # <<>>
    /\ \E got \in {QueueTake(message_queue)} :
          /\ message' = got.message
          /\ message_queue' = RestAfterGet(message_queue, got)
          /\ taken' = Append(taken, got.message)
    /\ putters' = IF putters = <<>> THEN putters ELSE Tail(putters)
    /\ enqueued' = IF putters = <<>> THEN enqueued ELSE Append(enqueued, Head(putters))
    /\ worker' = pc
    /\ UNCHANGED put_states

\* send_loop lines 24-28: the first message arrives
GetFirst ==
    /\ worker = "get_first"
    /\ GetMessage("connect")
    /\ remaining_retries' = Retries
    /\ UNCHANGED <<delivered, dropped, failures, decoderVars, deviceVars,
                   converterVars, cdromVars>>

\* send_loop line 28: the client connects (async with self.mqtt_client)
ConnectOk ==
    /\ worker = "connect"
    /\ worker' = "publish"
    /\ UNCHANGED <<message_queue, putters, message, remaining_retries, enqueued,
                   taken, delivered, dropped, failures, put_states,
                   decoderVars, deviceVars,
                   converterVars, cdromVars>>

\* mutant: a successful publish leaves the retry budget as it is
BudgetKept(remaining) == remaining

\* send_loop line 31: remaining_retries = retries
BudgetAfterPublish(remaining) == Retries

\* send_loop lines 30-32: publish returns; the budget is reset and the next
\* message is got, at once if there is one in the queue
PublishOk ==
    /\ worker = "publish"
    /\ delivered' = Append(delivered, message)
    /\ remaining_retries' = BudgetAfterPublish(remaining_retries)
    /\ IF message_queue # <<>>
       THEN GetMessage("publish")
       ELSE /\ worker' = "get_next"
            /\ UNCHANGED <<message_queue, putters, message, enqueued, taken, put_states>>
    /\ UNCHANGED <<dropped, failures, decoderVars, deviceVars,
                   converterVars, cdromVars>>

\* send_loop line 32: a message arrives for the connected worker
GetNext ==
    /\ worker = "get_next"
    /\ GetMessage("publish")
    /\ UNCHANGED <<remaining_retries, delivered, dropped, failures,
                   decoderVars, deviceVars,
                   converterVars, cdromVars>>

\* mutant: the budget is never exhausted
NeverExhausted(remaining) == FALSE

\* send_loop line 36: if remaining_retries <= 0
Exhausted(remaining) == remaining <= 0

\* send_loop lines 33-39: aiomqtt.MqttError is caught; the budget is
\* decremented and, when it is exhausted, another message is got, at once if
\* there is one in the queue; then the worker sleeps retry_delay
OnMqttError ==
    /\ remaining_retries' = remaining_retries - 1
    /\ failures' = [failures EXCEPT ![message] = @ + 1]
    /\ IF Exhausted(remaining_retries - 1)
       THEN /\ dropped' = Append(dropped, message)
            /\ IF message_queue # <<>>
               THEN GetMessage("sleep")
               ELSE /\ worker' = "get_dropped"
                    /\ UNCHANGED <<message_queue, putters, message, enqueued, taken,
                                   put_states>>
       ELSE /\ worker' = "sleep"
            /\ UNCHANGED <<message_queue, putters, message, enqueued, taken, dropped,
                           put_states>>
    /\ UNCHANGED <<delivered, decoderVars, deviceVars,
                   converterVars, cdromVars>>

\* send_loop line 28: connecting raises MqttError
ConnectFail ==
    /\ worker = "connect"
    /\ OnMqttError

\* send_loop line 30: publish raises MqttError
PublishFail ==
    /\ worker = "publish"
    /\ OnMqttError

\* send_loop line 38: a message arrives for the worker that dropped one
GetDropped ==
    /\ worker = "get_dropped"
    /\ GetMessage("sleep")
    /\ UNCHANGED <<remaining_retries, delivered, dropped, failures,
                   decoderVars, deviceVars,
                   converterVars, cdromVars>>

\* send_loop lines 39, 26-28: the retry delay is over
RetryWake ==
    /\ worker = "sleep"
    /\ worker' = "connect"
    /\ UNCHANGED <<message_queue, putters, message, remaining_retries, enqueued,
                   taken, delivered, dropped, failures, put_states,
                   decoderVars, deviceVars,
                   converterVars, cdromVars>>

\* MQTTWrapper.__init__ and the start of send_loop, which waits at line 24
InitPublisher ==
    /\ message_queue = <<>>
    /\ putters = <<>>
    /\ worker = "get_first"
    /\ message = NoMessage
    /\ remaining_retries = Retries
    /\ enqueued = <<>>
    /\ taken = <<>>
    /\ delivered = <<>>
    /\ dropped = <<>>
    /\ failures = [m \in Messages |-> 0]
    /\ put_states = {}

(***************************************************************************)
(* sources.py: Source.history_to_dict.  A dict is a function whose domain  *)
(* is the set of its keys.                                                 *)
(***************************************************************************)
EmptyDict == <<>>

\* d[k] = v
DictSet(d, k, v) == [x \in (DOMAIN d) \cup {k} |-> IF x = k THEN v ELSE d[x]]

\* d.get(k, default)
DictGet(d, k, default) == IF k \in DOMAIN d THEN d[k] ELSE default

\* history_to_dict lines 107-122: what one event of the history does to info
AddEvent(d, event) ==
    IF event.type = "DiscInfo"
    THEN DictSet(d, event.item_name, event.value)
    ELSE IF event.type = "TitleInfo"
    THEN LET title == DictGet(d["Titles"], event.title_number, [Streams |-> EmptyDict])
         IN DictSet(d, "Titles",
                    DictSet(d["Titles"], event.title_number,
                            DictSet(title, event.item_name, event.value)))
    ELSE IF event.type = "StreamInfo"
    THEN LET title == DictGet(d["Titles"], event.title_number, [Streams |-> EmptyDict])
             stream_ == DictGet(title["Streams"], event.stream_number, EmptyDict)
         IN DictSet(d, "Titles",
                    DictSet(d["Titles"], event.title_number,
                            DictSet(title, "Streams",
                                    DictSet(title["Streams"], event.stream_number,
                                            DictSet(stream_, event.item_name,
                                                    event.value)))))
    ELSE d

\* history_to_dict lines 106-122: the loop over the history
RECURSIVE Collected(_)
Collected(history) ==
    IF history = <<>> THEN [Titles |-> EmptyDict]
    ELSE AddEvent(Collected(SubSeq(history, 1, Len(history) - 1)),
                  history[Len(history)])

\* mutant: the keys in descending order
RECURSIVE SortedDescending(_)
SortedDescending(keys) ==
    IF keys = {} THEN <<>>
    ELSE LET k == CHOOSE x \in keys : \A y \in keys : y <= x
         IN <<k>> \o SortedDescending(keys \ {k})

\* sorted(d.keys())
RECURSIVE Sorted(_)
Sorted(keys) ==
    IF keys = {} THEN <<>>
    ELSE LET k == CHOOSE x \in keys : \A y \in keys : x <= y
         IN <<k>> \o Sorted(keys \ {k})

\* history_to_dict lines 128-132: the streams of a title as a list
StreamList(title) ==
    LET order == Sorted(DOMAIN title["Streams"])
    IN DictSet(title, "Streams", [i \in 1..Len(order) |-> title["Streams"][order[i]]])

\* history_to_dict lines 124-136: titles and streams converted to lists
history_to_dict(history) ==
    LET d == Collected(history)
        order == Sorted(DOMAIN d["Titles"])
    IN DictSet(d, "Titles", [i \in 1..Len(order) |-> StreamList(d["Titles"][order[i]])])

\* the lines whose events make up the histories of the converter harness:
\* a disc name, two attributes of title 0 and one of title 2, streams 0 and 1
\* of title 0 and stream 0 of title 2, and a progress line
HistoryLines ==
    {MkLine(TagCINFO, <<<<"2">>, <<"0">>, <<"\"", "d", "\"">>>>),
     MkLine(TagTINFO, <<<<"0">>, <<"2">>, <<"0">>, <<"\"", "t", "0", "\"">>>>),
     MkLine(TagTINFO, <<<<"0">>, <<"8">>, <<"0">>, <<"5">>>>),
     MkLine(TagTINFO, <<<<"2">>, <<"2">>, <<"0">>, <<"\"", "t", "2", "\"">>>>),
     MkLine(TagSINFO, <<<<"0">>, <<"1">>, <<"2">>, <<"0">>, <<"\"", "s", "0", "1", "\"">>>>),
     MkLine(TagSINFO, <<<<"0">>, <<"0">>, <<"2">>, <<"0">>, <<"\"", "s", "0", "0", "\"">>>>),
     MkLine(TagSINFO, <<<<"2">>, <<"0">>, <<"2">>, <<"0">>, <<"\"", "s", "2", "0", "\"">>>>)}

HistoryEvents == {get_event(l) : l \in HistoryLines}

NotConverted == [type |-> "NotConverted"]

\* run_command appends one more event to the history of the run
HistoryAppend(event) ==
    /\ info = NotConverted
    /\ \A i \in 1..Len(info_history) : info_history[i] # event
    /\ info_history' = Append(info_history, event)
    /\ UNCHANGED <<info, decoderVars, deviceVars, publisherVars, cdromVars>>

\* get_info line 102: return self.history_to_dict(history)
HistoryToDict ==
    /\ info = NotConverted
    /\ info' = [type |-> "Converted", dict |-> history_to_dict(info_history)]
    /\ UNCHANGED <<info_history, decoderVars, deviceVars, publisherVars, cdromVars>>

InitConverter ==
    /\ info_history = <<>>
    /\ info = NotConverted

(***************************************************************************)
(* cdrom.py: the control codes, resolved when the module is imported.      *)
(***************************************************************************)
CDROM_DISC_STATUS == 21287
CDS_NO_INFO == 0
CDS_DRIVE_NOT_READY == 3

\* cdrom.py lines 9-18 and 26-37: the defaults from the kernel
FallbackCodes ==
    [CDROMEJECT |-> CDROMEJECT, CDROMCLOSETRAY |-> CDROMCLOSETRAY,
     CDROM_DRIVE_STATUS |-> CDROM_DRIVE_STATUS, CDROM_DISC_STATUS |-> CDROM_DISC_STATUS,
     CDROM_LOCKDOOR |-> CDROM_LOCKDOOR, CDS_NO_INFO |-> CDS_NO_INFO,
     CDS_NO_DISC |-> CDS_NO_DISC, CDS_TRAY_OPEN |-> CDS_TRAY_OPEN,
     CDS_DRIVE_NOT_READY |-> CDS_DRIVE_NOT_READY, CDS_DISC_OK |-> CDS_DISC_OK]

\* the characters of the regular expression classes \w, \d and [\da-fA-F]
WordChars ==
    {Lower[i] : i \in 1..26} \cup {Upper[i] : i \in 1..26}
    \cup {Digits[i] : i \in 1..10} \cup {"_"}
DecimalChars == {Digits[i] : i \in 1..10}
HexChars == DecimalChars \cup {"a", "b", "c", "d", "e", "f", "A", "B", "C", "D", "E", "F"}

\* the length of the longest prefix of s whose characters are all in chars
\* (member) or all outside chars (not member): what a greedy + consumes
RECURSIVE LeadLen(_, _, _)
LeadLen(s, chars, member) ==
    IF s # <<>> /\ ((Head(s) \in chars) = member)
    THEN 1 + LeadLen(Tail(s), chars, member)
    ELSE 0

\* s without its first n characters, and the first n characters of s
After(s, n) == SubSeq(s, n + 1, Len(s))
First(s, n) == SubSeq(s, 1, n)

DefineWord == <<"#", "d", "e", "f", "i", "n", "e">>

\* pattern.match(line) for #define\W+(?P<key>\w+)\W+<prefix>(?P<value>[<chars>]+)
DefineMatch(text, prefix, chars) ==
    LET r1 == After(text, Len(DefineWord))
        r2 == After(r1, LeadLen(r1, WordChars, FALSE))
        r3 == After(r2, LeadLen(r2, WordChars, TRUE))
        r4 == After(r3, LeadLen(r3, WordChars, FALSE))
        r5 == After(r4, Len(prefix))
    IN IF /\ First(text, Len(DefineWord)) = DefineWord
          /\ LeadLen(r1, WordChars, FALSE) >= 1
          /\ LeadLen(r2, WordChars, TRUE) >= 1
          /\ LeadLen(r3, WordChars, FALSE) >= 1
          /\ First(r4, Len(prefix)) = prefix
          /\ LeadLen(r5, chars, TRUE) >= 1
       THEN [matched |-> TRUE, key |-> First(r2, LeadLen(r2, WordChars, TRUE)),
             value |-> First(r5, LeadLen(r5, chars, TRUE))]
       ELSE [matched |-> FALSE]

\* the value of one digit of int(value, base)
HexDigitVal(c) ==
    IF IsDigit(c) THEN DigitVal(c)
    ELSE 9 + (CHOOSE i \in 1..6 : Lower[i] = LowerChar(c))

\* int(value, base); IntBaseOk is FALSE where it raises ValueError
IntBaseOk(value, base) == \A i \in 1..Len(value) : HexDigitVal(value[i]) < base
RECURSIVE IntBase(_, _)
IntBase(value, base) ==
    IF value = <<>> THEN 0
    ELSE IntBase(First(value, Len(value) - 1), base) * base
         + HexDigitVal(value[Len(value)])

\* the text of a key as the name it is stored under
KeyNames ==
    {<<"CDROMEJECT", <<"C", "D", "R", "O", "M", "E", "J", "E", "C", "T">>>>,
     <<"CDROMCLOSETRAY",
       <<"C", "D", "R", "O", "M", "C", "L", "O", "S", "E", "T", "R", "A", "Y">>>>,
     <<"CDROM_DRIVE_STATUS",
       <<"C", "D", "R", "O", "M", "_", "D", "R", "I", "V", "E", "_", "S", "T", "A",
         "T", "U", "S">>>>,
     <<"CDROM_LOCKDOOR",
       <<"C", "D", "R", "O", "M", "_", "L", "O", "C", "K", "D", "O", "O", "R">>>>,
     <<"CDS_TRAY_OPEN", <<"C", "D", "S", "_", "T", "R", "A", "Y", "_", "O", "P", "E", "N">>>>,
     <<"CDS_DISC_OK", <<"C", "D", "S", "_", "D", "I", "S", "C", "_", "O", "K">>>>}
KeyText(name) == (CHOOSE k \in KeyNames : k[1] = name)[2]
KeyName(text) ==
    IF \E k \in KeyNames : k[2] = text
    THEN (CHOOSE k \in KeyNames : k[2] = text)[1]
    ELSE "other"

\* load_ioctl lines 52-64: the line's define, tried as hexadecimal, binary
\* and decimal in this order; base 0 for a line that matches none
LineDefine(text) ==
    LET hex == DefineMatch(text, <<"0", "x">>, HexChars)
        binary == DefineMatch(text, <<"0", "b">>, HexChars)
        decimal == DefineMatch(text, <<>>, DecimalChars)
    IN IF hex.matched THEN [base |-> 16, key |-> hex.key, value |-> hex.value]
       ELSE IF binary.matched THEN [base |-> 2, key |-> binary.key, value |-> binary.value]
       ELSE IF decimal.matched THEN [base |-> 10, key |-> decimal.key, value |-> decimal.value]
       ELSE [base |-> 0]

\* load_ioctl lines 51-64: the loop over the lines read so far; add_ioctl
\* stores the value in ioctl_values and in the module's globals
RECURSIVE LoadLines(_, _)
LoadLines(text_lines, st) ==
    IF text_lines = <<>> \/ st.exc # "none" THEN st
    ELSE LET d == LineDefine(Head(text_lines)) IN
         LoadLines(Tail(text_lines),
            IF d.base = 0 THEN st
            ELSE IF ~IntBaseOk(d.value, d.base) THEN [st EXCEPT !.exc = "ValueError"]
            ELSE [st EXCEPT
                    !.values = DictSet(@, KeyName(d.key), IntBase(d.value, d.base)),
                    !.globals = DictSet(@, KeyName(d.key), IntBase(d.value, d.base))])

\* the file at path: not there, or its lines
NoHeader == [exists |-> FALSE, text |-> <<>>]
HeaderOf(text_lines) == [exists |-> TRUE, text |-> text_lines]

\* load_ioctl(path): ioctl_values is emptied, then open(path) raises for a
\* file that is not there, else the lines are read
load_ioctl(path_lines, globals) ==
    IF ~path_lines.exists
    THEN [values |-> EmptyDict, globals |-> globals, exc |-> "FileNotFoundError"]
    ELSE LoadLines(path_lines.text, [values |-> EmptyDict, globals |-> globals, exc |-> "none"])

\* cdrom.py line 68, run when the module is imported:
\* load_ioctl("/usr/include/linux/cdrom.h")
LoadIoctl ==
    /\ startup = "importing"
    /\ \E st \in {load_ioctl(header, cdrom_globals)} :
          /\ ioctl_values' = st.values
          /\ cdrom_globals' = st.globals
          /\ startup' = IF st.exc = "none" THEN "imported" ELSE st.exc
    /\ UNCHANGED <<header, decoderVars, deviceVars, publisherVars, converterVars>>

\* #define KEY<tab><tab>VALUE /* */
HeaderLine(name, value) ==
    DefineWord \o <<" ">> \o KeyText(name) \o <<"\t", "\t">> \o value
    \o <<" ", "/", "*", " ", "*", "/">>

\* the lines a header may hold for each code: none, the kernel's value, and
\* for CDROM_LOCKDOOR a value that differs from the default
HeaderChoices ==
    [CDROMEJECT |-> {<<>>, <<HeaderLine("CDROMEJECT", <<"0", "x", "5", "3", "0", "9">>)>>},
     CDROMCLOSETRAY |->
        {<<>>, <<HeaderLine("CDROMCLOSETRAY", <<"0", "x", "5", "3", "1", "9">>)>>},
     CDROM_DRIVE_STATUS |->
        {<<>>, <<HeaderLine("CDROM_DRIVE_STATUS", <<"0", "x", "5", "3", "2", "6">>)>>},
     CDROM_LOCKDOOR |->
        {<<>>, <<HeaderLine("CDROM_LOCKDOOR", <<"0", "x", "5", "3", "2", "9">>)>>,
         <<HeaderLine("CDROM_LOCKDOOR", <<"0", "x", "5", "3", "2", "A">>)>>},
     CDS_TRAY_OPEN |-> {<<>>, <<HeaderLine("CDS_TRAY_OPEN", <<"2">>)>>},
     CDS_DISC_OK |-> {<<>>, <<HeaderLine("CDS_DISC_OK", <<"4">>)>>}]

\* the headers of the startup harness: a comment line and the lines chosen
Headers ==
    {HeaderOf(<<<<"/", "*", " ", "c", "d", "r", "o", "m", " ", "*", "/">>>>
       \o a \o b \o c \o d \o e \o f) :
       a \in HeaderChoices.CDROMEJECT, b \in HeaderChoices.CDROMCLOSETRAY,
       c \in HeaderChoices.CDROM_DRIVE_STATUS, d \in HeaderChoices.CDROM_LOCKDOOR,
       e \in HeaderChoices.CDS_TRAY_OPEN, f \in HeaderChoices.CDS_DISC_OK}

\* the kernel's header as far as the model uses it
KernelHeader ==
    HeaderOf(<<HeaderLine("CDROMEJECT", <<"0", "x", "5", "3", "0", "9">>),
      HeaderLine("CDROMCLOSETRAY", <<"0", "x", "5", "3", "1", "9">>),
      HeaderLine("CDROM_DRIVE_STATUS", <<"0", "x", "5", "3", "2", "6">>),
      HeaderLine("CDROM_LOCKDOOR", <<"0", "x", "5", "3", "2", "9">>),
      HeaderLine("CDS_TRAY_OPEN", <<"2">>),
      HeaderLine("CDS_DISC_OK", <<"4">>)>>)

\* the module as imported on a host with the kernel's header
InitCdrom ==
    /\ header = KernelHeader
    /\ ioctl_values = load_ioctl(KernelHeader, FallbackCodes).values
    /\ cdrom_globals = load_ioctl(KernelHeader, FallbackCodes).globals
    /\ startup = "imported"

(***************************************************************************)
(* The specification of the device model.                                  *)
(***************************************************************************)
NotDecoded == [type |-> "NotDecoded"]

Init ==
    /\ line = <<>>
    /\ decoded = NotDecoded
    /\ lock = NoTask
    /\ command_counter = 0
    /\ event_queue = <<>>
    /\ unfinished = 0
    /\ process = NoProcess
    /\ task = [t \in Tasks |-> IdleTask]
    /\ door = "unlocked"
    /\ stream = <<>>
    /\ cancels = 0
    /\ lines = 0
    /\ InitPublisher
    /\ InitConverter
    /\ InitCdrom

Next ==
    \/ \E t \in Tasks, wait \in BOOLEAN : RunCommandCall(t, wait)
    \/ \E t \in Tasks : RunCommandAcquire(t)
    \/ \E t \in Tasks, script \in ToolScripts : SpawnOk(t, script)
    \/ \E t \in Tasks : SpawnFail(t)
    \/ ToolWrite
    \/ ToolExit
    \/ ToolReaped
    \/ \E t \in Tasks : ReadLine(t)
    \/ \E t \in Tasks : ReadTimeout(t)
    \/ \E t \in Tasks : ReadEOF(t)
    \/ \E t \in Tasks : Communicate(t)
    \/ \E t \in Tasks : JoinDone(t)
    \/ GetEvent
    \/ \E t \in Tasks, call \in IoctlCalls, opened \in BOOLEAN : IoctlCall(t, call, opened)
    \/ \E t \in Tasks, opened \in BOOLEAN : IoctlAcquire(t, opened)
    \/ \E t \in Tasks, res \in {0, CDS_TRAY_OPEN, CDS_DISC_OK} : IoctlOk(t, res)
    \/ \E t \in Tasks, errno \in {"EBUSY", "EIO"} : IoctlOSError(t, errno)
    \/ \E t \in Tasks : IoctlRetry(t)
    \/ \E t \in Tasks, ok \in BOOLEAN : ThreadReturns(t, ok)
    \/ \E t \in Tasks, opened \in BOOLEAN : LockedDoorCall(t, opened)
    \/ \E t \in Tasks, how \in {"none", "BodyError"}, opened \in BOOLEAN : BodyExit(t, how, opened)
    \/ \E t \in Tasks, opened \in BOOLEAN : CancelBody(t, opened)
    \/ \E t \in Tasks : Cancel(t)

Spec == Init /\ [][Next]_vars

\* the tasks only run commands: Source.run_command, the tool, the consumer
NextRun ==
    \/ \E t \in Tasks, wait \in BOOLEAN : RunCommandCall(t, wait)
    \/ \E t \in Tasks : RunCommandAcquire(t)
    \/ \E t \in Tasks, script \in ToolScripts : SpawnOk(t, script)
    \/ \E t \in Tasks : SpawnFail(t)
    \/ ToolWrite
    \/ ToolExit
    \/ ToolReaped
    \/ \E t \in Tasks : ReadLine(t)
    \/ \E t \in Tasks : ReadTimeout(t)
    \/ \E t \in Tasks : ReadEOF(t)
    \/ \E t \in Tasks : Communicate(t)
    \/ \E t \in Tasks : JoinDone(t)
    \/ GetEvent
    \/ \E t \in Tasks : Cancel(t)

SpecRun == Init /\ [][NextRun]_vars

\* the tasks only use the Drive: run_ioctl and locked_door
NextDrive ==
    \/ \E t \in Tasks, call \in IoctlCalls, opened \in BOOLEAN : IoctlCall(t, call, opened)
    \/ \E t \in Tasks, opened \in BOOLEAN : IoctlAcquire(t, opened)
    \/ \E t \in Tasks, res \in {0, CDS_TRAY_OPEN, CDS_DISC_OK} : IoctlOk(t, res)
    \/ \E t \in Tasks, errno \in {"EBUSY", "EIO"} : IoctlOSError(t, errno)
    \/ \E t \in Tasks : IoctlRetry(t)
    \/ \E t \in Tasks, ok \in BOOLEAN : ThreadReturns(t, ok)
    \/ \E t \in Tasks, opened \in BOOLEAN : LockedDoorCall(t, opened)
    \/ \E t \in Tasks, how \in {"none", "BodyError"}, opened \in BOOLEAN : BodyExit(t, how, opened)
    \/ \E t \in Tasks, opened \in BOOLEAN : CancelBody(t, opened)
    \/ \E t \in Tasks : Cancel(t)

SpecDrive == Init /\ [][NextDrive]_vars

\* some tasks run commands while others call run_ioctl directly
NextShared ==
    \/ NextRun
    \/ \E t \in Tasks, call \in IoctlCalls, opened \in BOOLEAN : IoctlCall(t, call, opened)
    \/ \E t \in Tasks, opened \in BOOLEAN : IoctlAcquire(t, opened)
    \/ \E t \in Tasks, res \in {0, CDS_TRAY_OPEN, CDS_DISC_OK} : IoctlOk(t, res)
    \/ \E t \in Tasks, errno \in {"EBUSY", "EIO"} : IoctlOSError(t, errno)
    \/ \E t \in Tasks : IoctlRetry(t)
    \/ \E t \in Tasks, ok \in BOOLEAN : ThreadReturns(t, ok)

SpecShared == Init /\ [][NextShared]_vars

\* the status values a sample may give
Statuses == {CDS_NO_DISC, CDS_TRAY_OPEN, CDS_DISC_OK}

\* the tasks poll the drive: wait_for_state
NextWait ==
    \/ \E t \in Tasks, call \in WaitCalls, opened \in BOOLEAN : WaitCall(t, call, opened)
    \/ \E t \in Tasks, opened \in BOOLEAN : WaitWake(t, opened)
    \/ \E t \in Tasks, opened \in BOOLEAN : IoctlAcquire(t, opened)
    \/ \E t \in Tasks, res \in Statuses : IoctlOk(t, res)
    \/ \E t \in Tasks, errno \in {"EBUSY", "EIO"} : IoctlOSError(t, errno)
    \/ \E t \in Tasks : IoctlRetry(t)

SpecWait == Init /\ [][NextWait]_vars

\* one task cycles the tray, cycle(autoclose), while others call run_ioctl
NextCycle ==
    \/ \E t \in Tasks, call \in IoctlCalls, opened \in BOOLEAN : IoctlCall(t, call, opened)
    \/ \E t \in Tasks, autoclose \in BOOLEAN, opened \in BOOLEAN :
          CycleCall(t, autoclose, opened)
    \/ \E t \in Tasks, opened \in BOOLEAN : WaitWake(t, opened)
    \/ \E t \in Tasks, opened \in BOOLEAN : IoctlAcquire(t, opened)
    \/ \E t \in Tasks, res \in {0} \cup Statuses : IoctlOk(t, res)
    \/ \E t \in Tasks, res \in {0} \cup Statuses, opened \in BOOLEAN :
          IoctlOkNext(t, res, opened)
    \/ \E t \in Tasks, errno \in {"EBUSY", "EIO"} : IoctlOSError(t, errno)
    \/ \E t \in Tasks : IoctlRetry(t)

SpecCycle == Init /\ [][NextCycle]_vars

\* the publisher: producers, send_loop and a broker that may fail
NextPublisher ==
    \/ EnqueueMessage
    \/ GetFirst
    \/ ConnectOk
    \/ ConnectFail
    \/ PublishOk
    \/ PublishFail
    \/ GetNext
    \/ GetDropped
    \/ RetryWake

SpecPublisher == Init /\ [][NextPublisher]_vars

\* the steps of send_loop when the broker refuses every connection
WorkerDown ==
    \/ GetFirst
    \/ ConnectFail
    \/ GetDropped
    \/ RetryWake

\* the publisher with a broker that is down: producers and send_loop, whose
\* connection attempts all raise MqttError
NextDown ==
    \/ EnqueueMessage
    \/ GetFirst
    \/ ConnectFail
    \/ GetDropped
    \/ RetryWake

\* the event loop runs send_loop whenever it can go on: a get() with a
\* message in the queue returns, a connection attempt ends, a sleep is over
SpecDown == Init /\ [][NextDown]_vars /\ WF_vars(WorkerDown)

\* scan_disc with its get_info task, the tool and the drive
NextScan ==
    \/ \E t \in Tasks, opened \in BOOLEAN : ScanDiscCall(t, opened)
    \/ \E t \in Tasks : ScanCreateTask(t)
    \/ \E u \in Tasks : InfoTaskStart(u)
    \/ \E t \in Tasks : ScanGetEvent(t)
    \/ \E t \in Tasks, opened \in BOOLEAN : ScanAwaitInfo(t, opened)
    \/ \E t \in Tasks, opened \in BOOLEAN : ScanCancel(t, opened)
    \/ \E t \in Tasks, script \in ToolScripts : SpawnOk(t, script)
    \/ \E t \in Tasks : SpawnFail(t)
    \/ ToolWrite
    \/ ToolExit
    \/ ToolReaped
    \/ \E t \in Tasks : ReadLine(t)
    \/ \E t \in Tasks : ReadTimeout(t)
    \/ \E t \in Tasks : ReadEOF(t)
    \/ \E t \in Tasks : Communicate(t)
    \/ \E t \in Tasks : JoinDone(t)
    \/ \E t \in Tasks, opened \in BOOLEAN : IoctlAcquire(t, opened)
    \/ \E t \in Tasks, res \in {0} : IoctlOk(t, res)
    \/ \E t \in Tasks, errno \in {"EBUSY", "EIO"} : IoctlOSError(t, errno)
    \/ \E t \in Tasks : IoctlRetry(t)

\* what the event loop, the worker thread and the tool do when they can: the
\* steps of scan_disc and of its ioctls, the steps of the get_info task, and
\* the tool's writes and its exit
ScanSteps ==
    \/ \E t \in Tasks : ScanCreateTask(t)
    \/ \E t \in Tasks : ScanGetEvent(t)
    \/ \E t \in Tasks, opened \in BOOLEAN : ScanAwaitInfo(t, opened)
    \/ \E t \in Tasks, opened \in BOOLEAN : IoctlAcquire(t, opened)
    \/ \E t \in Tasks, res \in {0} : IoctlOk(t, res)
    \/ \E t \in Tasks : IoctlRetry(t)
InfoSteps ==
    \/ \E u \in Tasks : InfoTaskStart(u)
    \/ \E t \in Tasks, script \in ToolScripts : SpawnOk(t, script)
    \/ \E t \in Tasks : ReadLine(t)
    \/ \E t \in Tasks : ReadEOF(t)
    \/ \E t \in Tasks : Communicate(t)
    \/ \E t \in Tasks : JoinDone(t)
ToolSteps == ToolWrite \/ ToolExit \/ ToolReaped

SpecScan ==
    Init /\ [][NextScan]_vars
    /\ WF_vars(ScanSteps) /\ WF_vars(InfoSteps) /\ WF_vars(ToolSteps)

\* one wait_for_state that never ends, next to tasks that call run_ioctl or
\* run_command (without the join, the tool writing nothing): the samples
\* past the counted sleeps are PollMiss steps; os.open and the hardware calls
\* succeed
NextPoll ==
    \/ \E t \in Tasks, call \in WaitCalls :
          (\A u \in Tasks : task[u].op # "wait_for_state") /\ WaitCall(t, call, TRUE)
    \/ \E t \in Tasks, opened \in {TRUE} : WaitWake(t, opened)
    \/ \E t \in Tasks, call \in IoctlCalls, opened \in {TRUE} : IoctlCall(t, call, opened)
    \/ \E t \in Tasks, opened \in {TRUE} : IoctlAcquire(t, opened)
    \/ \E t \in Tasks, res \in {0} \cup Statuses : IoctlOk(t, res)
    \/ \E t \in Tasks, res \in Statuses : PollMiss(t, res)
    \/ \E t \in Tasks : RunCommandCall(t, FALSE)
    \/ \E t \in Tasks : RunCommandAcquire(t)
    \/ \E t \in Tasks : SpawnOk(t, <<>>)
    \/ ToolExit
    \/ ToolReaped
    \/ \E t \in Tasks : ReadTimeout(t)
    \/ \E t \in Tasks : ReadEOF(t)
    \/ \E t \in Tasks : Communicate(t)

\* what goes on by itself: the worker thread returns the hardware call's
\* answer, the sleeps end, the tool exits, the run reads
DeviceSteps ==
    \/ \E t \in Tasks, res \in {0} \cup Statuses : IoctlOk(t, res)
    \/ \E t \in Tasks, res \in Statuses : PollMiss(t, res)
    \/ \E t \in Tasks, opened \in {TRUE} : WaitWake(t, opened)
RunSteps ==
    \/ \E t \in Tasks : SpawnOk(t, <<>>)
    \/ \E t \in Tasks : ReadEOF(t)
    \/ \E t \in Tasks : Communicate(t)

\* asyncio.Lock wakes its waiters in the order of their calls and lets no
\* later caller pass a waiter: a task that waits while the lock is released
\* again and again gets it, which is strong fairness of its acquisition
LockIsFair ==
    \A t \in Tasks :
        SF_vars(IoctlAcquire(t, TRUE) \/ RunCommandAcquire(t))

SpecPoll ==
    Init /\ [][NextPoll]_vars
    /\ WF_vars(DeviceSteps) /\ WF_vars(RunSteps) /\ WF_vars(ToolSteps) /\ LockIsFair

\* the read-loop harness: one run_command whose tool writes up to MaxBurst
\* lines, and a consumer
NextRead ==
    \/ \E wait \in BOOLEAN : RunCommandCall(1, wait)
    \/ \E t \in Tasks, script \in ReadScripts : SpawnTool(t, script)
    \/ ToolWrite
    \/ ToolExit
    \/ ToolReaped
    \/ \E t \in Tasks : ReadLine(t)
    \/ \E t \in Tasks : ReadTimeout(t)
    \/ \E t \in Tasks : ReadEOF(t)
    \/ \E t \in Tasks : Communicate(t)
    \/ \E t \in Tasks : JoinDone(t)
    \/ GetEvent

\* the steps of the run that the event loop takes when they are possible: a
\* line or the end of file is read, the exit status is collected, the
\* buffered output is drained
ReadProgress ==
    \/ ToolReaped
    \/ \E t \in Tasks : ReadLine(t)
    \/ \E t \in Tasks : ReadEOF(t)
    \/ \E t \in Tasks : Communicate(t)

SpecRead == Init /\ [][NextRead]_vars /\ WF_vars(ReadProgress)

\* the converter harness: a history of info events in any order, handed to
\* history_to_dict
NextConvert ==
    \/ \E event \in HistoryEvents : HistoryAppend(event)
    \/ HistoryToDict

SpecConvert == Init /\ [][NextConvert]_vars

\* the import of cdrom.py on a host with any of the headers, or with none
InitStartup ==
    /\ line = <<>>
    /\ decoded = NotDecoded
    /\ lock = NoTask
    /\ command_counter = 0
    /\ event_queue = <<>>
    /\ unfinished = 0
    /\ process = NoProcess
    /\ task = [t \in Tasks |-> IdleTask]
    /\ door = "unlocked"
    /\ stream = <<>>
    /\ cancels = 0
    /\ lines = 0
    /\ InitPublisher
    /\ InitConverter
    /\ header \in Headers \cup {NoHeader}
    /\ ioctl_values = FallbackCodes
    /\ cdrom_globals = FallbackCodes
    /\ startup = "importing"

NextStartup == LoadIoctl

SpecStartup == InitStartup /\ [][NextStartup]_vars

(***************************************************************************)
(* The specification of the decoder harness: get_event applied to one      *)
(* line drawn from DecodeLines.                                            *)
(***************************************************************************)
InitDecode ==
    /\ line \in DecodeLines
    /\ decoded = NotDecoded
    /\ lock = NoTask
    /\ command_counter = 0
    /\ event_queue = <<>>
    /\ unfinished = 0
    /\ process = NoProcess
    /\ task = [t \in Tasks |-> IdleTask]
    /\ door = "unlocked"
    /\ stream = <<>>
    /\ cancels = 0
    /\ lines = 0
    /\ InitPublisher
    /\ InitConverter
    /\ InitCdrom

DecodeLine ==
    /\ decoded = NotDecoded
    /\ decoded' = get_event(line)
    /\ UNCHANGED <<line, deviceVars, publisherVars, converterVars, cdromVars>>

NextDecode == DecodeLine

SpecDecode == InitDecode /\ [][NextDecode]_vars

(***************************************************************************)
(* Properties.                                                             *)
(***************************************************************************)
\* t is inside run_command with the lock held
InRun(t) == task[t].pc \in {"rc_spawn", "rc_read", "rc_comm", "rc_join"}

\* t's command has pushed Start and has not pushed Stop yet
InCommand(t) == task[t].pc \in {"rc_spawn", "rc_read", "rc_comm"}

\* t is inside run_ioctl with the lock held
InIoctl(t) == task[t].pc \in {"io_call", "io_sleep"}

IsStart(e) == e.type = "Start"
IsStop(e) == e.type = "Stop"
IsStartOf(e, n) == e.type = "Start" /\ e.command_number = n
IsStopOf(e, n) == e.type = "Stop" /\ e.command_number = n
SameItem(a, b) == a.type = b.type /\ a = b

\* C1: at most one run_command is in progress at any time, and in the
\* stream of everything put on the event queue no Start appears between a
\* Start and the Stop of the same command, whatever wait_for_queue is.
C1_RunsAreSerialized ==
    /\ \A t, u \in Tasks : InRun(t) /\ InRun(u) => t = u
    /\ \A t \in Tasks : InRun(t) => lock = t
    /\ \A i, j, k \in 1..Len(stream) :
          (i < j /\ j < k /\ IsStart(stream[i])
             /\ IsStopOf(stream[k], stream[i].command_number))
          => ~IsStart(stream[j])

\* C1 witness: a run with wait_for_queue has pushed its Stop and still holds
\* the lock while a concurrent call without wait_for_queue waits for it
C1_Witness ==
    \E t, u \in Tasks :
        /\ task[t].pc = "rc_join"
        /\ task[u].pc = "rc_lock"
        /\ ~task[u].wait_for_queue

\* C2: command numbers are unique and strictly increasing: the Starts of the
\* stream carry strictly increasing numbers, every number handed out is
\* below the counter, and the counter moves only by one, in the step in
\* which the task that gets the old value takes the lock.
C2_NumbersIncrease ==
    /\ [](\A i, j \in 1..Len(stream) :
             (i < j /\ IsStart(stream[i]) /\ IsStart(stream[j]))
             => stream[i].command_number < stream[j].command_number)
    /\ [](\A t \in Tasks : task[t].command_number < command_counter)
    /\ [](\A t, u \in Tasks :
             (t # u /\ task[t].command_number >= 0)
             => task[t].command_number # task[u].command_number)
    /\ [][command_counter' # command_counter =>
            /\ command_counter' = command_counter + 1
            /\ lock = NoTask
            /\ \E t \in Tasks : /\ lock' = t
                                /\ task[t].command_number = -1
                                /\ task'[t].command_number = command_counter]_vars

\* C2 witness: a run whose spawn failed or that was cancelled had a number,
\* and a later run has a greater one
C2_Witness ==
    \E t, u \in Tasks :
        /\ task[t].op = "run_command"
        /\ task[t].exc \in {"SpawnFailure", "CancelledError"}
        /\ task[t].command_number >= 0
        /\ task[u].command_number > task[t].command_number

\* the position of Start n in the stream
StartIndex(n) == CHOOSE i \in 1..Len(stream) : IsStartOf(stream[i], n)

\* C3: the history a run_command returns begins with the Start of its
\* command number, ends with the Stop of the same number, holds no other
\* Start or Stop, and is what was put on the event queue for the run, in
\* the same order.
C3_HistoryIsBracketed ==
    \A t \in Tasks :
        (task[t].op = "run_command" /\ task[t].pc = "done") =>
            LET h == task[t].history
                n == task[t].command_number
            IN /\ Len(h) >= 2
               /\ IsStartOf(h[1], n)
               /\ IsStopOf(h[Len(h)], n)
               /\ \A k \in 2..(Len(h) - 1) : ~IsStart(h[k]) /\ ~IsStop(h[k])
               /\ \E i \in 1..Len(stream) : IsStartOf(stream[i], n)
               /\ StartIndex(n) + Len(h) - 1 <= Len(stream)
               /\ \A k \in 1..Len(h) : SameItem(h[k], stream[StartIndex(n) + k - 1])

\* C3 witness: a returned history with a decoded event between Start and Stop
C3_Witness ==
    \E t \in Tasks :
        /\ task[t].op = "run_command"
        /\ task[t].pc = "done"
        /\ Len(task[t].history) >= 3
        /\ task[t].history[2].type = "ProgressValue"

\* C4: a run with wait_for_queue keeps the lock while it waits in join() and
\* returns only in a step that leaves the event queue empty with nothing
\* unfinished; a run without it releases the lock and returns in the step
\* that pushes Stop, whatever is still queued.
C4_DrainPolicy ==
    /\ [](\A t \in Tasks : task[t].pc = "rc_join" => lock = t /\ task[t].wait_for_queue)
    /\ [][\A t \in Tasks :
            (task[t].op = "run_command" /\ task[t].wait_for_queue
               /\ task[t].pc # "done" /\ task'[t].pc = "done")
            => /\ lock = t
               /\ lock' # t
               /\ event_queue' = <<>>
               /\ unfinished' = 0]_vars
    /\ [][\A t \in Tasks :
            (task[t].op = "run_command" /\ ~task[t].wait_for_queue
               /\ Len(stream') > Len(stream)
               /\ IsStopOf(stream'[Len(stream')], task[t].command_number))
            => /\ task'[t].pc = "done"
               /\ lock' # t]_vars

\* C4 witness: a run with wait_for_queue has returned, and a later run
\* without it has returned too while its events are still queued
C4_Witness ==
    \E t, u \in Tasks :
        /\ task[t].pc = "done" /\ task[t].op = "run_command" /\ task[t].wait_for_queue
        /\ task[u].pc = "done" /\ task[u].op = "run_command" /\ ~task[u].wait_for_queue
        /\ event_queue # <<>>
        /\ IsStopOf(event_queue[Len(event_queue)], task[u].command_number)

\* C5: when the tool cannot be spawned, run_command ends with the error and
\* does not hold the lock afterwards.
C5_SpawnFailureReleases ==
    \A t \in Tasks :
        /\ task[t].exc = "SpawnFailure" => task[t].pc = "raised" /\ lock # t
        /\ task[t].pc \in {"idle", "done", "raised"} => lock # t

\* C5 witness: after a spawn failure a later run_command holds the lock
C5_Witness ==
    \E t, u \in Tasks :
        /\ task[t].exc = "SpawnFailure"
        /\ lock = u
        /\ InRun(u)

DecodeErrors == {"ValueError", "TypeError", "ZeroDivisionError"}

\* C6: a decode error is never fatal to a run: no run_command ends with an
\* exception raised by the decoder.
C6_DecodeErrorsAbsorbed ==
    \A t \in Tasks : task[t].pc = "raised" => task[t].exc \notin DecodeErrors

\* the PRGV lines of the decoder harness whose limit field is 0
ZeroLimitLines ==
    {MkLine(TagPRGV, <<a, b, <<"0">>>>) : a \in PrgvFields, b \in PrgvFields}

\* C7: decoding a PRGV line whose limit is 0 raises an error and yields no
\* event; no ProgressValue event has limit 0 or a fraction over 0.
C7_ZeroLimitIsAnError ==
    decoded # NotDecoded =>
        /\ line \in ZeroLimitLines => IsRaised(decoded)
        /\ decoded.type = "ProgressValue" =>
              /\ decoded.limit # 0
              /\ decoded.current_fraction.den # 0
              /\ decoded.total_fraction.den # 0

\* C7 witness: PRGV:1,2,0 has been decoded and raised the division error
C7_Witness ==
    /\ line = LineZeroLimit
    /\ decoded = Raised("ZeroDivisionError")

\* C8: hardware operations and command runs on the device are serialized by
\* the one lock: while a run_ioctl is in progress its task holds the lock,
\* no other run_ioctl is in progress and no command is between its Start and
\* its Stop (nor waiting in join); and no two hardware calls on the device
\* are executing at the same time.
C8_IoctlsAndRunsSerialized ==
    /\ \A t \in Tasks :
          InIoctl(t) =>
              /\ lock = t
              /\ \A u \in Tasks : u # t => ~InIoctl(u) /\ ~InRun(u)
    /\ \A t, u \in Tasks : task[t].thread /\ task[u].thread => t = u

C10_UnlockOnEveryExit ==
    \A t \in Tasks :
        (task[t].op = "locked_door" /\ task[t].scope = "exit"
           /\ task[t].pc \in {"done", "raised"})
        => task[t].issued

\* the status samples a call has taken, in order
Samples(tr) == [i \in 1..Len(tr.ops) |-> tr.ops[i][3]]

\* the sample is what the call waits for: in states, or outside them for an
\* inverted wait
Satisfies(status, tr) ==
    IF tr.invert THEN status \notin tr.states ELSE status \in tr.states

\* C11: wait_for_state returns exactly at its first sample that is in the
\* state: when it has returned its last sample is in the state, no earlier
\* one is, and it has slept once after each earlier sample; while it runs no
\* sample taken so far is in the state and it has slept once per sample, less
\* the one being awaited; for the samples NoDisc, NoDisc, DiscOk and the
\* target {DiscOk} it has returned with 3 samples and 2 sleeps.
C11_ReturnsAtFirstSample ==
    \A t \in Tasks :
        task[t].op = "wait_for_state" =>
            LET tr == task[t]
                seen == Samples(tr)
                n == Len(seen)
            IN /\ tr.pc = "done" =>
                     /\ n >= 1
                     /\ Satisfies(seen[n], tr)
                     /\ \A i \in 1..(n - 1) : ~Satisfies(seen[i], tr)
                     /\ tr.sleeps = n - 1
               /\ tr.pc # "done" =>
                     /\ \A i \in 1..n : ~Satisfies(seen[i], tr)
                     /\ tr.sleeps = n
               /\ tr.pc = "ws_sleep" => n >= 1 /\ lock # t
               /\ (seen = <<CDS_NO_DISC, CDS_NO_DISC, CDS_DISC_OK>>
                   /\ tr.states = {CDS_DISC_OK} /\ ~tr.invert)
                  => tr.pc = "done" /\ tr.sleeps = 2

\* C11 witness: wait_for_state({DiscOk}) has returned after the samples
\* NoDisc, NoDisc, DiscOk
C11_Witness ==
    \E t \in Tasks :
        /\ task[t].op = "wait_for_state"
        /\ task[t].pc = "done"
        /\ task[t].states = {CDS_DISC_OK}
        /\ ~task[t].invert
        /\ Samples(task[t]) = <<CDS_NO_DISC, CDS_NO_DISC, CDS_DISC_OK>>
        /\ task[t].sleeps = 2

\* how far the hardware calls of a cycle have got: 0 nothing yet, 1 door
\* unlocked, 2 ejected, 3 tray seen open and close still to be commanded,
\* 4 waiting for the tray to close, 5 tray seen not open; -1 for a call that
\* is out of this order
CycleStage(stage, op, autoclose) ==
    CASE stage = 0 /\ op[1] = CDROM_LOCKDOOR /\ op[2] = 0 -> 1
      [] stage = 1 /\ op[1] = CDROMEJECT -> 2
      [] stage = 2 /\ op[1] = CDROM_DRIVE_STATUS ->
             IF op[3] # CDS_TRAY_OPEN THEN 2 ELSE IF autoclose THEN 3 ELSE 4
      [] stage = 3 /\ op[1] = CDROMCLOSETRAY -> 4
      [] stage = 4 /\ op[1] = CDROM_DRIVE_STATUS ->
             IF op[3] = CDS_TRAY_OPEN THEN 4 ELSE 5
      [] OTHER -> -1

RECURSIVE CycleStageAfter(_, _)
CycleStageAfter(ops, autoclose) ==
    IF ops = <<>> THEN 0
    ELSE CycleStage(CycleStageAfter(SubSeq(ops, 1, Len(ops) - 1), autoclose),
                    ops[Len(ops)], autoclose)

\* C12: the hardware calls of cycle(autoclose) come in the order door unlock,
\* eject, status samples up to one that is TrayOpen, the close-tray command
\* if and only if autoclose, status samples up to one that is not TrayOpen;
\* cycle has returned exactly when that last sample has been seen, so never
\* before a TrayOpen sample followed by a sample that is not TrayOpen.
C12_CycleOrder ==
    \A t \in Tasks :
        task[t].op = "cycle" =>
            LET tr == task[t]
                stage == CycleStageAfter(tr.ops, tr.autoclose)
            IN /\ stage # -1
               /\ tr.pc = "done" <=> stage = 5
               /\ tr.pc = "done" =>
                     \E i, j \in 1..Len(tr.ops) :
                         /\ i < j
                         /\ tr.ops[i] = <<CDROM_DRIVE_STATUS, 0, CDS_TRAY_OPEN>>
                         /\ tr.ops[j][1] = CDROM_DRIVE_STATUS
                         /\ tr.ops[j][3] # CDS_TRAY_OPEN
                         /\ j = Len(tr.ops)
               /\ (\E i \in 1..Len(tr.ops) : tr.ops[i][1] = CDROMCLOSETRAY) => tr.autoclose

\* C12 witness: a cycle with autoclose has returned after the tray was
\* sampled open at the second try and still open once after the close command
C12_Witness ==
    \E t \in Tasks :
        /\ task[t].op = "cycle"
        /\ task[t].pc = "done"
        /\ task[t].autoclose
        /\ task[t].sleeps = 2
        /\ Len(task[t].ops) = 7
        /\ task[t].ops[3][3] # CDS_TRAY_OPEN
        /\ task[t].ops[6][3] = CDS_TRAY_OPEN

\* the points where send_loop is suspended: waiting for a message (with no
\* connection, connected, after a drop), connecting, publishing, sleeping
\* before a retry
WorkerStates == {"get_first", "connect", "publish", "get_next", "get_dropped", "sleep"}

\* C13: enqueue_message never blocks and never fails: no put() is ever
\* suspended, and in every state of the worker a call appends the message to
\* the queue in the step of the call and leaves the worker as it is.
C13_EnqueueNeverBlocks ==
    /\ [](putters = <<>>)
    /\ [](worker \in WorkerStates)
    /\ [][EnqueueMessage =>
            /\ message_queue' = Append(message_queue, Len(enqueued) + 1)
            /\ enqueued' = Append(enqueued, Len(enqueued) + 1)
            /\ putters' = <<>>
            /\ worker' = worker
            /\ remaining_retries' = remaining_retries]_vars

\* C13 witness: puts have returned while the worker was blocked on the empty
\* queue, connecting, connected and publishing, and sleeping before a retry,
\* and a message has been dropped after failures
C13_Witness ==
    /\ {"get_first", "connect", "publish", "sleep"} \subseteq put_states
    /\ dropped # <<>>

\* C14: a message taken after a drop starts with a fresh retry budget: a
\* message in flight that has met no failure yet has the whole budget, and a
\* message is dropped only after as many failures as the budget allows.
C14_FreshBudgetAfterDrop ==
    /\ (message # NoMessage /\ failures[message] = 0
          /\ worker \in {"connect", "publish", "sleep"})
       => remaining_retries = Retries
    /\ \A i \in 1..Len(dropped) : failures[dropped[i]] = Retries

\* C15: after every successful delivery the retry budget is the configured
\* maximum: the step that delivers a message leaves remaining_retries at
\* Retries, the connected worker waiting for a message has the whole budget,
\* and a message taken right after a delivery is dropped only after Retries
\* failures of its own, whatever failures came before that delivery.
C15_BudgetResetOnSuccess ==
    /\ [][Len(delivered') > Len(delivered) => remaining_retries' = Retries]_vars
    /\ [](worker = "get_next" => remaining_retries = Retries)
    /\ [](\A i \in 1..Len(dropped) :
            (\E j \in 1..Len(delivered) : delivered[j] = dropped[i] - 1)
            => failures[dropped[i]] = Retries)

\* C15 witness: a message that met a failure was delivered, and the message
\* taken after it was dropped after Retries failures of its own
C15_Witness ==
    \E i \in 1..Len(dropped), j \in 1..Len(delivered) :
        /\ delivered[j] = dropped[i] - 1
        /\ failures[delivered[j]] >= 1
        /\ failures[dropped[i]] = Retries

\* the place of message m in the order of the enqueue calls, 0 if it was
\* never enqueued
EnqueuePosition(m) ==
    IF \E i \in 1..Len(enqueued) : enqueued[i] = m
    THEN CHOOSE i \in 1..Len(enqueued) : enqueued[i] = m
    ELSE 0

\* C16: the delivered messages are a subsequence of the enqueued ones: every
\* delivered message was enqueued, and of two delivered messages the one
\* delivered first was enqueued first, whatever failures, retries and drops
\* happened in between.
C16_DeliveredInEnqueueOrder ==
    /\ \A i \in 1..Len(delivered) : EnqueuePosition(delivered[i]) >= 1
    /\ \A i, j \in 1..Len(delivered) :
          i < j => EnqueuePosition(delivered[i]) < EnqueuePosition(delivered[j])

\* C16 witness: two messages were delivered around one that was dropped, the
\* earlier one after a failure of its own, all three enqueued before the first
\* was taken
C16_Witness ==
    /\ Len(delivered) >= 2
    /\ \E i \in 1..Len(dropped) :
          /\ delivered[1] < dropped[i]
          /\ dropped[i] < delivered[2]
    /\ failures[delivered[1]] >= 1
    /\ put_states = {"get_first"}

\* m is among the messages of sequence q
InSeq(m, q) == \E i \in 1..Len(q) : q[i] = m

\* C17: with a connection that fails at every attempt the worker neither
\* crashes nor stops: it is always at one of its suspension points, a message
\* is discarded only after an attempt, no message is attempted again once
\* the budget is used up, and every enqueued message is eventually attempted
\* at least once and discarded.
C17_EveryMessageAttemptedThenDropped ==
    /\ [](worker \in WorkerStates)
    /\ [](\A i \in 1..Len(dropped) : failures[dropped[i]] >= 1)
    /\ [](\A m \in Messages : failures[m] >= Retries => InSeq(m, dropped))
    /\ \A m \in Messages :
          InSeq(m, enqueued) ~> (InSeq(m, dropped) /\ failures[m] >= 1)

\* C17 witness: every message was enqueued, attempted and discarded, the
\* later ones while the worker was busy with an earlier one
C17_Witness ==
    /\ \A m \in Messages : InSeq(m, dropped) /\ failures[m] >= 1
    /\ delivered = <<>>
    /\ "sleep" \in put_states

\* sequence q holds no message twice
NoDuplicates(q) == \A i, j \in 1..Len(q) : q[i] = q[j] => i = j

\* C18: each enqueued message is taken from the queue at most once and ends
\* in at most one outcome: no message is taken twice, delivered twice,
\* dropped twice, or both delivered and dropped; only taken messages are
\* delivered or dropped; a taken message is never in the queue again; and
\* every taken message other than the one in flight has its one outcome.
C18_TakenOnceOneOutcome ==
    /\ NoDuplicates(taken)
    /\ NoDuplicates(delivered)
    /\ NoDuplicates(dropped)
    /\ \A m \in Messages : ~(InSeq(m, delivered) /\ InSeq(m, dropped))
    /\ \A m \in Messages : (InSeq(m, delivered) \/ InSeq(m, dropped)) => InSeq(m, taken)
    /\ \A m \in Messages : InSeq(m, taken) => ~InSeq(m, message_queue)
    /\ \A m \in Messages : InSeq(m, taken) => InSeq(m, enqueued)
    /\ \A m \in Messages :
          (InSeq(m, taken) /\ ~InSeq(m, delivered) /\ ~InSeq(m, dropped))
          => /\ m = message
             /\ worker \in {"connect", "publish", "sleep"}

\* C18 witness: every message was taken; some were delivered, one of them
\* after a failure, and the others dropped
C18_Witness ==
    /\ Len(taken) = MaxMessages
    /\ Len(delivered) + Len(dropped) = MaxMessages
    /\ Len(delivered) >= 2
    /\ Len(dropped) >= 1
    /\ \E i \in 1..Len(delivered) : failures[delivered[i]] >= 1

\* the text before the first colon of a line, the whole line if it has none
TagText(l) == SplitFirst(l, ":")

\* a and b are the same text when the case of the letters is ignored
SameIgnoringCase(a, b) ==
    /\ Len(a) = Len(b)
    /\ \A i \in 1..Len(a) : UpperChar(a[i]) = UpperChar(b[i])

\* the tag of the line is tag, case ignored; with stripped, the whitespace
\* around the tag of the line is removed first
MatchesTag(l, tag, stripped) ==
    SameIgnoringCase(IF stripped THEN Strip(TagText(l), Whitespace) ELSE TagText(l), tag)

\* the line is empty or holds whitespace only
IsBlankLine(l) == \A i \in 1..Len(l) : l[i] \in Whitespace

\* a line whose tag matches an entry of the table is decoded by the event
\* class of that entry (an event of its type, or the error its parser
\* raises); any other line that is not blank decodes to Unknown; a blank
\* line decodes to no event
DecodesByTag(stripped) ==
    decoded # NotDecoded =>
        /\ \A i \in 1..Len(TagTable) :
              MatchesTag(line, TagTable[i], stripped) =>
                  IsRaised(decoded) \/ decoded.type = TagTypes[i]
        /\ ((\A i \in 1..Len(TagTable) : ~MatchesTag(line, TagTable[i], stripped))
              /\ ~IsBlankLine(line))
           => decoded.type = "Unknown"
        /\ IsBlankLine(line) => decoded = NoEvent

\* C19 (as stated): get_event matches the text before the first colon,
\* case ignored, against the nine tags and decodes by the class of that tag;
\* every other line that is not blank decodes to Unknown; a blank line
\* decodes to no event and no error.
C19_TagMatchedIgnoringCase == DecodesByTag(FALSE)

\* C19 (amended): get_event matches the text before the first colon, with
\* the whitespace around it removed and case ignored, against the nine tags
\* and decodes by the class of that tag; every other line that is not blank
\* decodes to Unknown; a blank line decodes to no event and no error.
C19_StrippedTagMatchedIgnoringCase == DecodesByTag(TRUE)

\* C19 witness: the line " msg :1,0,0,0,a" has been decoded to a Message
C19_Witness ==
    /\ line = MkLine(<<" ", "m", "s", "g", " ">>,
                     <<<<"1">>, <<"0">>, <<"0">>, <<"0">>, <<"a">>>>)
    /\ decoded.type = "Message"

\* C20: every ProgressValue event the decoder emits has 0 <= current <= limit
\* and 0 <= total <= limit, so both fractions lie between 0 and 1; a PRGV
\* line outside this range is not emitted as an event.
C20_ProgressWithinLimit ==
    decoded.type = "ProgressValue" =>
        /\ 0 <= decoded.current /\ decoded.current <= decoded.limit
        /\ 0 <= decoded.total /\ decoded.total <= decoded.limit

\* the ids of the attributes of the integer case, of Duration, and the
\* event type of each info tag
IntegerIds == {8, 11, 14, 17, 18, 22, 25, 33}
DurationId == 9
KnownIds == 0..50
InfoTypeOf(head) ==
    CASE head[1] = TagCINFO -> "DiscInfo"
      [] head[1] = TagTINFO -> "TitleInfo"
      [] head[1] = TagSINFO -> "StreamInfo"

\* what decoding the info line of id and value must give, for each tag alike
InfoOutcomeOk(head, id, value) ==
    IF id \notin KnownIds THEN decoded = Raised("ValueError")
    ELSE IF id \in IntegerIds
    THEN IF value = ValueNumber
         THEN /\ decoded.type = InfoTypeOf(head)
              /\ decoded.item_id = id
              /\ decoded.value = [kind |-> "int", int |-> 5]
         ELSE decoded = Raised("ValueError")
    ELSE IF id = DurationId
    THEN IF value = ValueDuration
         THEN /\ decoded.type = InfoTypeOf(head)
              /\ decoded.item_id = id
              /\ decoded.value.kind = "timedelta"
              /\ decoded.value.num * 10 = 37235 * decoded.value.den
         ELSE decoded = Raised("ValueError")
    ELSE /\ decoded.type = InfoTypeOf(head)
         /\ decoded.item_id = id
         /\ decoded.value.kind = "str"
         /\ decoded.value.str = SubSeq(value, IF value = ValueNumber THEN 1 ELSE 2,
                                       IF value = ValueNumber THEN 1 ELSE Len(value) - 1)

\* C21: the type of an info event's value is decided by the attribute id
\* alone, for DiscInfo, TitleInfo and StreamInfo alike: the eight integer
\* attributes give an integer, Duration gives the duration of H:MM:SS.fff,
\* every other known id gives the unquoted string, and an id outside the 51
\* attributes is a decode error.
C21_ValueTypeByAttribute ==
    decoded # NotDecoded =>
        \A head \in InfoHeads, id \in InfoIds, value \in InfoValues :
            line = InfoLine(head, id, value) => InfoOutcomeOk(head, id, value)

\* C21 witness: SINFO:0,1,9,0,"1:02:03.5" has been decoded to a StreamInfo
\* whose value is the duration 1:02:03.5
C21_Witness ==
    /\ line = InfoLine(<<TagSINFO, <<<<"0">>, <<"1">>>>>>, 9, ValueDuration)
    /\ decoded.type = "StreamInfo"
    /\ decoded.value.kind = "timedelta"
    /\ decoded.value.num = 37235
    /\ decoded.value.den = 10

\* the events of the converted history of a type, the title numbers and the
\* stream numbers of a title met in it, and the place of n in a set of numbers
EventsOf(type) ==
    {info_history[i] : i \in {j \in 1..Len(info_history) : info_history[j].type = type}}
TitleNumbers == {e.title_number : e \in EventsOf("TitleInfo") \cup EventsOf("StreamInfo")}
StreamNumbers(t) == {e.stream_number : e \in {x \in EventsOf("StreamInfo") : x.title_number = t}}
Rank(n, S) == Cardinality({m \in S : m <= n})

\* C22: history_to_dict puts each DiscInfo attribute at top level, each
\* TitleInfo attribute in its title and each StreamInfo attribute in its
\* stream of its title, with nothing else; the titles are a list in ascending
\* order of title number and each title's streams a list in ascending order
\* of stream number, whatever the order of the events in the history.
C22_InfoOrderedByNumber ==
    info.type = "Converted" =>
        LET d == info.dict IN
        /\ DOMAIN d = {"Titles"} \cup {e.item_name : e \in EventsOf("DiscInfo")}
        /\ \A e \in EventsOf("DiscInfo") : d[e.item_name] = e.value
        /\ DOMAIN d["Titles"] = 1..Cardinality(TitleNumbers)
        /\ \A t \in TitleNumbers :
              LET title == d["Titles"][Rank(t, TitleNumbers)] IN
              /\ DOMAIN title =
                    {"Streams"} \cup
                    {e.item_name : e \in {x \in EventsOf("TitleInfo") : x.title_number = t}}
              /\ DOMAIN title["Streams"] = 1..Cardinality(StreamNumbers(t))
        /\ \A e \in EventsOf("TitleInfo") :
              d["Titles"][Rank(e.title_number, TitleNumbers)][e.item_name] = e.value
        /\ \A e \in EventsOf("StreamInfo") :
              LET title == d["Titles"][Rank(e.title_number, TitleNumbers)]
                  stream_ == title["Streams"][Rank(e.stream_number,
                                                   StreamNumbers(e.title_number))]
              IN /\ DOMAIN stream_ = {e.item_name}
                 /\ stream_[e.item_name] = e.value

\* C22 witness: the seven events were converted from a history in which
\* title 2 comes before title 0 and stream 1 of title 0 before its stream 0
C22_Witness ==
    /\ info.type = "Converted"
    /\ Len(info_history) = 7
    /\ info_history[1].type = "StreamInfo" /\ info_history[1].title_number = 2
    /\ info_history[2].type = "StreamInfo" /\ info_history[2].stream_number = 1
    /\ info_history[7].type = "DiscInfo"
    /\ Len(info.dict["Titles"]) = 2
    /\ Len(info.dict["Titles"][1]["Streams"]) = 2
    /\ info.dict["Titles"][1]["Streams"][1]["Name"].str = <<"s", "0", "0">>
    /\ info.dict["Titles"][1]["ChapterCount"].int = 5
    /\ info.dict["Titles"][2]["Name"].str = <<"t", "2">>

\* C24: the control codes are resolved once, when the module is imported:
\* from the header when it is there, and from the defaults when it is not, in
\* which case the import still succeeds and the ten codes keep their default
\* values; after the import the codes never change.
C24_CodesResolvedAtStartup ==
    /\ [](startup # "importing" =>
            /\ startup = "imported"
            /\ ~header.exists => cdrom_globals = FallbackCodes
            /\ header.exists =>
                  \A i \in 1..Len(header.text) :
                      LineDefine(header.text[i]).base # 0 =>
                          cdrom_globals[KeyName(LineDefine(header.text[i]).key)]
                             = IntBase(LineDefine(header.text[i]).value,
                                       LineDefine(header.text[i]).base))
    /\ [][startup # "importing" => cdrom_globals' = cdrom_globals]_vars

\* C25: only decoded events are pushed to the event queue and appended to
\* the history, in the read loop and in the drain after the tool exits alike:
\* no element of the queue, of the stream of pushed items or of a history is
\* the non-event None.
C25_NoNoneIsPushed ==
    /\ \A i \in 1..Len(event_queue) : event_queue[i].type # "None"
    /\ \A i \in 1..Len(stream) : stream[i].type # "None"
    /\ \A t \in Tasks : \A i \in 1..Len(task[t].history) : task[t].history[i].type # "None"

\* Stop of command n has been pushed
StopPushed(n) == \E i \in 1..Len(stream) : IsStopOf(stream[i], n)

\* C26: a read timeout is not an error: a timeout step adds nothing to the
\* queue, the stream or the history and leaves the run in its read loop with
\* the lock held; the loop is left, and Stop pushed, only after the process
\* has exited; and once the process has exited Stop is eventually pushed.
C26_TimeoutIsNotAnError ==
    /\ [][\A t \in Tasks :
            ReadTimeout(t) =>
                /\ event_queue' = event_queue
                /\ stream' = stream
                /\ unfinished' = unfinished
                /\ task'[t].history = task[t].history
                /\ task'[t].pc = "rc_read"
                /\ task'[t].exc = "none"
                /\ lock' = t]_vars
    /\ [](\A t \in Tasks :
            task[t].pc \in {"rc_comm", "rc_join", "done"} => process.returncode # "None")
    /\ [](\A t \in Tasks :
            (task[t].op = "run_command" /\ StopPushed(task[t].command_number))
            => process.state = "exited")
    /\ \A t \in Tasks :
          (task[t].pc \in {"rc_read", "rc_comm"} /\ process.state = "exited")
          ~> StopPushed(task[t].command_number)

\* C26 witness: after a line was read the loop has met MaxTimeouts timeouts
\* in a row while the tool, still running, has a line to write
C26_Witness ==
    \E t \in Tasks :
        /\ task[t].pc = "rc_read"
        /\ task[t].timeouts = MaxTimeouts
        /\ Len(task[t].history) = 2
        /\ process.state = "running"
        /\ process.script # <<>>
        /\ lock = t

\* C23: on every exit path of run_command the tool process has been killed
\* and reaped before the lock is released: a tool process is alive only while
\* the run that spawned it holds the lock inside its read loop or its drain.
C23_ToolReapedBeforeRelease ==
    process.state = "running" =>
        /\ lock # NoTask
        /\ task[lock].op = "run_command"
        /\ task[lock].pc \in {"rc_read", "rc_comm"}

\* C27: a string field wrapped in double quotes is stored without the quotes:
\* the text, the format code and each parameter of a Message, the name of a
\* ProgressCurrent and of a ProgressTotal, the drive name and the disc name of
\* a DriveScan, and the value of an info event.
C27_QuotedFieldsUnquoted ==
    decoded # NotDecoded =>
        /\ \A x \in QuotedTexts, y \in QuotedTexts :
                line = QuotedMessage(x, y) =>
                    /\ decoded.type = "Message"
                    /\ decoded.message = x
                    /\ decoded.format_code = y
                    /\ decoded.parameters = <<y, x>>
        /\ \A x \in QuotedTexts :
                /\ line = QuotedProgress(TagPRGC, x) =>
                        decoded.type = "ProgressCurrent" /\ decoded.name = x
                /\ line = QuotedProgress(TagPRGT, x) =>
                        decoded.type = "ProgressTotal" /\ decoded.name = x
        /\ \A head \in InfoHeads :
                line = InfoLine(head, 2, Quoted(<<"a">>)) =>
                    /\ decoded.type = InfoTypeOf(head)
                    /\ decoded.value.kind = "str"
                    /\ decoded.value.str = <<"a">>
        /\ \A x \in QuotedTexts, y \in QuotedTexts :
                line = QuotedDrive(x, y) =>
                    /\ decoded.type = "DriveScan"
                    /\ decoded.drive_name = x
                    /\ decoded.disc_name = y

\* C28: the stream of events pushed to the queue is well bracketed: between
\* a Start{n} and any later Start there is the Stop{n} of the first.
C28_StreamWellBracketed ==
    \A i \in 1..Len(stream), j \in 1..Len(stream) :
        (i < j /\ stream[i].type = "Start" /\ stream[j].type = "Start") =>
            \E k \in (i + 1)..(j - 1) : IsStopOf(stream[k], stream[i].command_number)

\* t has left the locked_door scope of scan_disc and its unlock_door has the
\* lock, or has had it
UnlockEntered(t) == Scanning(t) /\ task[t].scope = "exit" /\ task[t].pc # "io_lock"

\* C29: once the run_command task that scan_disc started has ended, normally
\* or with an error, scan_disc eventually ends too.
C29_ScanEndsWithItsCommand ==
    \A u \in Tasks :
        (task[u].op = "run_command" /\ task[u].pc \in {"done", "raised"})
        ~> (\E t \in Tasks : Scanning(t) /\ task[t].pc \in {"done", "raised"})

\* C30: once scan_disc has dequeued the Stop its unlock_door eventually gets
\* the lock, and so it does when the scope is left before Stop is dequeued.
C30_UnlockGetsTheLock ==
    /\ \A t \in Tasks :
          (Scanning(t) /\ task[t].step = "await") ~> UnlockEntered(t)
    /\ \A t \in Tasks :
          (Scanning(t) /\ task[t].scope = "exit") ~> UnlockEntered(t)

\* C31: the device opened by run_ioctl is closed on every exit path: a task
\* has the device open only while it holds the lock inside run_ioctl, so no
\* descriptor of the call is open once the lock has been released.
C31_DeviceClosedOnEveryExit ==
    \A t \in Tasks : task[t].fd => (lock = t /\ task[t].pc \in {"io_call", "io_sleep"})

\* C32: in every state of send_loop the retry counter is between 0 and
\* retries.
C32_RetryCounterInRange ==
    /\ 0 <= remaining_retries
    /\ remaining_retries <= Retries

\* C33: open_tray is atomic: once its unlock has succeeded the eject never
\* waits for the lock behind another task, and the door is unlocked when the
\* eject is issued.
C33_OpenTrayAtomic ==
    \A t \in Tasks :
        (task[t].op = "cycle" /\ task[t].step = "eject") =>
            /\ task[t].pc # "io_lock"
            /\ task[t].pc \in {"io_call", "io_sleep"} => door = "unlocked"

\* t waits for the device lock in a call that is not a status sample of a wait
WaitsForLock(t) == task[t].pc \in {"io_lock", "rc_lock"} /\ ~Sampling(task[t])

\* C34: a polling wait does not starve the other users of the device: the
\* wait holds the lock only during a status sample, never in its polling
\* sleep, and a run_command or a hardware operation that waits for the lock
\* gets it, even next to a wait that never ends.
C34_PollingDoesNotStarve ==
    /\ [](\A t \in Tasks :
            /\ task[t].pc = "ws_sleep" => lock # t
            /\ (Sampling(task[t]) /\ lock = t) => task[t].pc \in {"io_call", "io_sleep"})
    /\ \A t \in Tasks : WaitsForLock(t) ~> ~WaitsForLock(t)

\* C34 witness: a wait past its counted sleeps is asleep while another
\* task's hardware call, made after that, holds the lock
C34_Witness ==
    \E t \in Tasks, u \in Tasks :
        /\ task[t].op = "wait_for_state"
        /\ task[t].pc = "ws_sleep"
        /\ task[t].sleeps = MaxSleeps
        /\ task[t].result # -1
        /\ t < u
        /\ task[u].op = "run_ioctl"
        /\ task[u].pc = "io_call"
        /\ lock = u

====
